---- MODULE Spec2Model ----
(***************************************************************************)
(* State-machine model of linkding-to-opml: the discovery result cache     *)
(* (internal/cache), the export worker pool (internal/feeds/processor.go)  *)
(* and the import worker pool (internal/importer).                         *)
(***************************************************************************)
EXTENDS Integers, Sequences, FiniteSets, TLC

VARIABLES
    \* ---- internal/cache: Cache and the file behind it
    entries,      \* Cache.entries: url -> CacheEntry (present = FALSE: no entry)
    now,          \* the clock read by time.Now / time.Since: hours and nanoseconds
    diskFile,     \* the file at Cache.filePath
    tempFile,     \* the file at Cache.filePath + ".tmp"
    cachePhase,   \* "new" (NewCache), "ready" (after LoadCache), "closed" (after SaveCache)
    savePc,       \* position inside SaveCache
    saveResult,   \* what SaveCache returned: "none", "nil", "err"
    savePrev,     \* history: the file at filePath when SaveCache was entered
    saveCount,    \* history: number of SaveCache invocations
    loadResult,   \* what LoadCache returned: "none", "nil", "err"
    lastGet,      \* the return value of the Get that has just run
    lastOp,       \* history: the last LoadCache / Set / SetFailed
    \* ---- internal/feeds: ProcessBookmarks (export)
    bookmarks,    \* the bookmarks argument: a sequence of URLs
    pConfig,      \* ProcessingConfig: Concurrency, MaxAge
    bookmarkChan, \* bookmarkChan: indices of the bookmarks in flight
    bookmarkClosed,
    resultChan,   \* resultChan: the results in flight
    resultClosed,
    pwg,          \* the WaitGroup counter
    pSent,        \* number of bookmarks already sent to bookmarkChan
    pMain,        \* position of ProcessBookmarks
    pCloser,      \* position of the goroutine that waits and closes resultChan
    pWorker,      \* per worker: position, current bookmark, locals
    pStats,       \* ProcessingStats
    successful,   \* the slice ProcessBookmarks returns
    pHist,        \* history per bookmark: what its processBookmark did
    \* ---- internal/importer: ProcessItems (import)
    items,        \* the items argument: a sequence of ImportItem
    options,      \* ProcessOptions: DuplicateAction, DryRun, RetryAttempts
    concurrency,  \* the concurrency argument
    service,      \* the bookmarks held by Linkding: url -> ID, 0 when there is none
    workQueue,    \* workQueue: indices of the items in flight
    workClosed,
    iSent,        \* number of items already sent to workQueue
    iwg,          \* the WaitGroup counter
    iMain,        \* position of ProcessItems
    iWorker,      \* per worker: position, current item, attempt, locals
    stats,        \* ImportStats
    iHist,        \* history per item: receptions, and the calls of its last ProcessBookmark
    \* ---- internal/cache: callers of one Cache and its sync.RWMutex
    mu,           \* Cache.mu: whether the write lock is held, and the number of read locks
    caller,       \* per calling goroutine: the method it runs and its position in it
    \* ---- internal/feeds: one call of DiscoverFeedWithDebug
    dPc,          \* position of DiscoverFeedWithDebug
    feedURLs,     \* feedURLs: the candidates findFeedLinks returned
    dIndex,       \* number of candidates the loop has dealt with
    fetchLog,     \* history: the candidate fetches made, in order
    dResult,      \* result: the FeedDiscoveryResult being filled
    \* ---- internal/feeds: one call of parseRSSFeed
    rssDoc,       \* the content argument: an RSS document
    rssFeed,      \* the Feed returned
    \* ---- cmd: the end of runExport
    runResult,    \* what runExport returned, and what it printed and wrote before
    \* ---- internal/feeds: one call of HTTPClient.FetchPage
    pageContent,  \* the text the server holds for the URL
    resp,         \* resp: status code, Content-Encoding header and body
    fetchResult,  \* what FetchPage returned
    \* ---- internal/importer: one call of retryOperation
    maxAttempts,  \* the maxAttempts argument
    attempt,      \* the loop variable
    retryPc,      \* position of retryOperation
    retryLog,     \* history: calls made, durations slept, what was returned
    \* ---- internal/feeds: one call of findFeedLinks
    htmlContent,  \* the htmlContent argument: the page
    baseURL,      \* the baseURL argument, parsed
    foundLinks,   \* what findFeedLinks returned
    \* ---- internal/feeds: one document given to FetchFeed and to extractFeedTitle
    feedContent,  \* the content fetched from the feed URL
    feedResult,   \* what FetchFeed returned
    titleResult,  \* what extractFeedTitle returned
    \* ---- internal/feeds: one request of the client NewHTTPClient builds
    maxRedirects, \* config.MaxRedirects
    chain,        \* number of redirects the servers answer before the final response
    via,          \* len(via) at the next redirect: the requests made so far
    doResult      \* what client.Do returned

cacheVars == <<entries, now, diskFile, tempFile, cachePhase, savePc, saveResult,
               savePrev, saveCount, loadResult, lastGet, lastOp>>

exportVars == <<bookmarks, pConfig, bookmarkChan, bookmarkClosed, resultChan,
                resultClosed, pwg, pSent, pMain, pCloser, pWorker, pStats, successful,
                pHist>>

importVars == <<items, options, concurrency, service, workQueue, workClosed, iSent, iwg,
                iMain, iWorker, stats, iHist>>

lockVars == <<mu, caller>>

\* the state of the parts modelled on their own, which the pools leave alone
discoverVars == <<dPc, feedURLs, dIndex, fetchLog, dResult>>

rssVars == <<rssDoc, rssFeed>>

runVars == <<runResult>>

fetchVars == <<pageContent, resp, fetchResult>>

retryVars == <<maxAttempts, attempt, retryPc, retryLog>>

\* the sections that come after FetchPage
findVars == <<htmlContent, baseURL, foundLinks>>

feedVars == <<feedContent, feedResult, titleResult>>

redirectVars == <<maxRedirects, chain, via, doResult>>

lastVars == <<feedVars, redirectVars>>

extraVars == <<retryVars, findVars, lastVars>>

sideVars == <<lockVars, discoverVars, rssVars, runVars, fetchVars, extraVars>>

otherThanCache == <<exportVars, importVars, sideVars>>

vars == <<cacheVars, exportVars, importVars, sideVars>>

----------------------------------------------------------------------------
\* Bounds of the model

\* the clock advances at most this many whole hours
MaxHours == 1
\* and at most this many single nanoseconds
MaxNanos == 1
\* ProcessBookmarks gets at most this many bookmarks
MaxBookmarks == 2
\* and runs at most this many workers
MaxPool == 2
\* ProcessItems gets at most this many items
MaxItems == 2
\* and runs at most this many workers
MaxImportPool == 2
\* RetryAttempts is at most this
MaxRetry == 2
\* at most this many goroutines call the methods of one Cache
MaxCallers == 2
\* findFeedLinks returns at most this many candidates
MaxCandidates == 3
\* the channel of an RSS document has at most this many children
MaxNodes == 3
\* a page has at most this many bytes
MaxContent == 3
\* retryOperation is called with at most this many attempts
MaxAttempts == 36
\* a page yields at most this many feed links by either method
MaxLinks == 2
\* the text of a link has at most this many characters
MaxLinkText == 3
\* config.MaxRedirects is at most this
MaxRedirectLimit == 5
\* the servers answer at most this many redirects in a row
MaxChain == 7

----------------------------------------------------------------------------
\* 64-bit durations (time.Duration is an int64 count of nanoseconds), kept as
\* eight base-256 limbs, least significant first, so that products wrap at 2^64.

LimbBase == 256
LimbCount == 8

RECURSIVE MulCarry(_, _, _, _)
MulCarry(L, m, i, c) ==
    IF i > Len(L) THEN <<>>
    ELSE LET t == L[i] * m + c
         IN  <<t % LimbBase>> \o MulCarry(L, m, i + 1, t \div LimbBase)

\* L * m  (mod 2^64), 0 <= m < 2^22
MulSmall(L, m) == MulCarry(L, m, 1, 0)

RECURSIVE AddCarry(_, _, _)
AddCarry(L, i, c) ==
    IF i > Len(L) THEN <<>>
    ELSE LET t == L[i] + c
         IN  <<t % LimbBase>> \o AddCarry(L, i + 1, t \div LimbBase)

\* L + x  (mod 2^64), 0 <= x < 2^31 - 256
AddSmall(L, x) == AddCarry(L, 1, x)

ToLimbs(x) == AddSmall([i \in 1..LimbCount |-> 0], x)

IsNegative64(L) == L[LimbCount] >= LimbBase \div 2

RECURSIVE GreaterFrom(_, _, _)
GreaterFrom(A, B, i) ==
    IF i = 0 THEN FALSE
    ELSE IF A[i] # B[i] THEN A[i] > B[i]
    ELSE GreaterFrom(A, B, i - 1)

\* A > B as signed 64-bit integers
Greater64(A, B) ==
    IF IsNegative64(A) # IsNegative64(B) THEN IsNegative64(B)
    ELSE GreaterFrom(A, B, LimbCount)

\* time.Hour = 60 * 60 * 1e9 ns
HourLimbs == MulSmall(ToLimbs(1000 * 1000 * 1000), 60 * 60)

----------------------------------------------------------------------------
\* internal/cache

Keys == {"u1", "u2"}

ZeroTime == [h |-> 0, n |-> 0]

\* the nil *CacheEntry, and the value of a key that is not in the map
NoEntry == [present |-> FALSE, FeedURL |-> "", FeedTitle |-> "", Timestamp |-> ZeroTime]

EmptyEntries == [k \in Keys |-> NoEntry]

\* time.Since(entry.Timestamp) as a Duration
Since(ts, t) == AddSmall(MulSmall(HourLimbs, t.h - ts.h), t.n - ts.n)

isStale(entry, maxAgeHours, t) ==
    LET maxAge == MulSmall(HourLimbs, maxAgeHours)
    IN  Greater64(Since(entry.Timestamp, t), maxAge)

\* mutant of Get: an entry without a feed URL is reported as a miss
Get_NegativeIsMiss(es, url, maxAgeHours, t) ==
    IF ~es[url].present THEN NoEntry
    ELSE IF isStale(es[url], maxAgeHours, t) THEN NoEntry
    ELSE IF es[url].FeedURL = "" THEN NoEntry
    ELSE es[url]

Get(es, url, maxAgeHours, t) ==
    IF ~es[url].present THEN NoEntry
    ELSE IF isStale(es[url], maxAgeHours, t) THEN NoEntry
    ELSE es[url]

\* mutant of Set: the entry is stored without its Timestamp
Set_NoTimestamp(es, url, feedURL, feedTitle, t) ==
    [es EXCEPT ![url] = [present |-> TRUE, FeedURL |-> feedURL,
                         FeedTitle |-> feedTitle, Timestamp |-> [h |-> 0 - 4, n |-> 0]]]

Set(es, url, feedURL, feedTitle, t) ==
    [es EXCEPT ![url] = [present |-> TRUE, FeedURL |-> feedURL,
                         FeedTitle |-> feedTitle, Timestamp |-> t]]

SetFailed(es, url, t) ==
    [es EXCEPT ![url] = [present |-> TRUE, FeedURL |-> "",
                         FeedTitle |-> "", Timestamp |-> t]]

HasFeed(entry) == entry.present /\ entry.FeedURL # ""

\* ---- the cache file
Missing    == [kind |-> "missing",    data |-> EmptyEntries]
Unreadable == [kind |-> "unreadable", data |-> EmptyEntries]
Valid(es)   == [kind |-> "valid",   data |-> es]
\* a file whose decoding fails after the entries in data were decoded
Corrupt(es) == [kind |-> "corrupt", data |-> es]
\* a file just created by os.Create, nothing written yet
Created    == [kind |-> "corrupt",    data |-> EmptyEntries]

OldTime == [h |-> 0 - 2, n |-> 0]

\* snapshots an earlier run may have left behind
OldSnapshots ==
    { EmptyEntries,
      Set(EmptyEntries, "u1", "f1", "t1", ZeroTime),
      SetFailed(EmptyEntries, "u1", ZeroTime),
      Set(EmptyEntries, "u1", "f1", "t1", OldTime),
      SetFailed(EmptyEntries, "u1", OldTime) }

InitialFiles ==
    {Missing, Unreadable} \cup {Valid(es) : es \in OldSnapshots}
        \cup {Corrupt(es) : es \in OldSnapshots}

\* gob decoding into a map adds the decoded keys to it
DecodeInto(es, data) == [k \in Keys |-> IF data[k].present THEN data[k] ELSE es[k]]

\* mutant of LoadCacheEntries: the map is not reset after a failed decode
LoadCacheEntries_NoReset(es, file) ==
    IF file.kind \in {"missing", "unreadable"} THEN es
    ELSE DecodeInto(es, file.data)

\* Cache.entries after LoadCache
LoadCacheEntries(es, file) ==
    IF file.kind = "missing" THEN es
    ELSE IF file.kind = "unreadable" THEN es
    ELSE IF file.kind = "corrupt" THEN EmptyEntries
    ELSE DecodeInto(es, file.data)

\* values of maxAgeHours: none, one hour, and both sides of the int64 range
MaxAgeChoices == {0, 1, 2562047, 2562048, 5124095}

FeedChoices == {<<"f1", "t1">>, <<"", "">>}

NoGet == [valid |-> FALSE, key |-> "u1", maxAge |-> 0, res |-> NoEntry]
NoOp == [op |-> "none", key |-> "u1", FeedURL |-> "", FeedTitle |-> "",
         at |-> ZeroTime, file |-> Missing]

\* ---- values of the export state, defined here for the frame of the cache actions
NoResult == [item |-> 0, URL |-> "", FeedURL |-> "", FeedTitle |-> "", Error |-> ""]

IdleWorker == [pc |-> "off", item |-> 0, cached |-> NoEntry, tmp |-> 0, result |-> NoResult]

ZeroStats == [TotalBookmarks |-> 0, CacheHits |-> 0, NewDiscoveries |-> 0,
              SuccessfulFeeds |-> 0, FailedDiscoveries |-> 0]

\* no export is running
ExportIdle ==
    /\ bookmarks = <<>>
    /\ pConfig = [Concurrency |-> 1, MaxAge |-> 0]
    /\ bookmarkChan = <<>>
    /\ bookmarkClosed = FALSE
    /\ resultChan = <<>>
    /\ resultClosed = FALSE
    /\ pwg = 0
    /\ pSent = 0
    /\ pMain = "off"
    /\ pCloser = "off"
    /\ pWorker = [w \in 1..MaxPool |-> IdleWorker]
    /\ pStats = ZeroStats
    /\ successful = <<>>
    /\ pHist = <<>>

URLs == {"h1", "x1", "w1"}

\* recv: receptions from workQueue; the rest describes the item's last ProcessBookmark call
\* discovered, fetches, feed: what its last DiscoverBookmarkURL call returned, how often
\* it fetched the feed and what the fetch answered
NoItemHist == [recv |-> 0, calls |-> 0, lookup |-> "none", existingID |-> 0,
               creates |-> 0, updates |-> 0, updateID |-> 0, returned |-> "none",
               discovered |-> "none", fetches |-> 0, feed |-> "unused", createOver |-> 0]

IdleImportWorker == [pc |-> "off", item |-> 0, attempt |-> 0, existing |-> 0]

ZeroImportStats == [Total |-> 0, Processed |-> 0, Imported |-> 0, Updated |-> 0,
                    Skipped |-> 0, Failed |-> 0]

\* no import is running
ImportIdle ==
    /\ items = <<>>
    /\ options = [DuplicateAction |-> "skip", DryRun |-> TRUE, RetryAttempts |-> 0]
    /\ concurrency = 1
    /\ service = [u \in URLs |-> 0]
    /\ workQueue = <<>>
    /\ workClosed = FALSE
    /\ iSent = 0
    /\ iwg = 0
    /\ iMain = "off"
    /\ iWorker = [w \in 1..MaxImportPool |-> IdleImportWorker]
    /\ stats = ZeroImportStats
    /\ iHist = <<>>

NoError == [msg |-> "", n |-> 0]

NewResult == [URL |-> "u1", FeedURL |-> "", FeedTitle |-> "", Error |-> NoError]

\* no discovery is running
DiscoverIdle ==
    /\ dPc = "off"
    /\ feedURLs = <<>>
    /\ dIndex = 0
    /\ fetchLog = <<>>
    /\ dResult = NewResult

NoFeed == [parsed |-> FALSE, Link |-> ""]

NoDocument == [children |-> <<>>, itemAfterChannel |-> FALSE]

NotCalled == [returned |-> FALSE, feedURLs |-> <<>>]

\* findFeedLinks is not running
FindIdle ==
    /\ htmlContent = [parsed |-> TRUE, walk |-> <<>>, regex |-> <<>>]
    /\ baseURL = [Scheme |-> "", Host |-> ""]
    /\ foundLinks = NotCalled

NoRetryLog == [calls |-> 0, sleeps |-> <<>>, lastCall |-> "none", returned |-> "none"]

\* retryOperation is not running
RetryIdle ==
    /\ maxAttempts = 0
    /\ attempt = 0
    /\ retryPc = "off"
    /\ retryLog = NoRetryLog

\* none of the sections that come after FetchPage is running
NotParsed == [returned |-> FALSE, feed |-> [err |-> TRUE, Title |-> "", Link |-> <<>>, FeedType |-> ""]]

NotExtracted == [returned |-> FALSE, res |-> [err |-> TRUE, title |-> ""]]

\* no document is being parsed
FeedIdle ==
    /\ feedContent = [wellFormed |-> FALSE, root |-> "html", title |-> "", link |-> <<>>]
    /\ feedResult = NotParsed
    /\ titleResult = NotExtracted

\* no request is under way
RedirectIdle ==
    /\ maxRedirects = 0
    /\ chain = 0
    /\ via = 1
    /\ doResult = "none"

LastIdle == FeedIdle /\ RedirectIdle

ExtraIdle == RetryIdle /\ FindIdle /\ LastIdle

NoFetch == [done |-> FALSE, text |-> <<>>, err |-> ""]

\* no page is being fetched
FetchIdle ==
    /\ pageContent = <<>>
    /\ resp = [StatusCode |-> 0, ContentEncoding |-> "", Body |-> <<>>]
    /\ fetchResult = NoFetch

NoRun == [returned |-> "none", summary |-> FALSE, file |-> "none", output |-> <<>>]

\* runExport has not come to its end
RunIdle == runResult = NoRun

\* no document is being parsed
RssIdle ==
    /\ rssDoc = NoDocument
    /\ rssFeed = NoFeed

IdleCaller == [pc |-> "idle", method |-> "none", key |-> "u1", feed |-> <<"", "">>,
               seen |-> NoEntry]

\* nobody calls the cache
LockIdle ==
    /\ mu = [writer |-> FALSE, readers |-> 0]
    /\ caller = [t \in 1..MaxCallers |-> IdleCaller]

CacheInit ==
    /\ entries = EmptyEntries
    /\ now = ZeroTime
    /\ diskFile \in InitialFiles
    /\ tempFile = Missing
    /\ cachePhase = "new"
    /\ savePc = "idle"
    /\ saveResult = "none"
    /\ savePrev = Missing
    /\ saveCount = 0
    /\ loadResult = "none"
    /\ lastGet = NoGet
    /\ lastOp = NoOp

CacheSpecInit ==
    /\ CacheInit
    /\ ExportIdle
    /\ ImportIdle
    /\ LockIdle
    /\ DiscoverIdle
    /\ RssIdle
    /\ RunIdle
    /\ FetchIdle
    /\ ExtraIdle

LoadCache ==
    /\ cachePhase = "new"
    /\ entries' = LoadCacheEntries(entries, diskFile)
    /\ cachePhase' = "ready"
    /\ loadResult' = "nil"
    /\ lastOp' = [NoOp EXCEPT !.op = "LoadCache", !.file = diskFile]
    /\ lastGet' = NoGet
    /\ UNCHANGED <<now, diskFile, tempFile, savePc, saveResult, savePrev, saveCount>>
    /\ UNCHANGED otherThanCache

CacheGet ==
    /\ cachePhase = "ready" /\ savePc = "idle"
    /\ \E k \in Keys, m \in MaxAgeChoices :
          lastGet' = [valid |-> TRUE, key |-> k, maxAge |-> m,
                      res |-> Get(entries, k, m, now)]
    /\ UNCHANGED <<entries, now, diskFile, tempFile, cachePhase, savePc, saveResult,
                   savePrev, saveCount, loadResult, lastOp>>
    /\ UNCHANGED otherThanCache

CacheSet ==
    /\ cachePhase = "ready" /\ savePc = "idle"
    /\ \E k \in Keys, f \in FeedChoices :
          /\ entries' = Set(entries, k, f[1], f[2], now)
          /\ lastOp' = [NoOp EXCEPT !.op = "Set", !.key = k, !.FeedURL = f[1],
                                    !.FeedTitle = f[2], !.at = now]
    /\ lastGet' = NoGet
    /\ UNCHANGED <<now, diskFile, tempFile, cachePhase, savePc, saveResult,
                   savePrev, saveCount, loadResult>>
    /\ UNCHANGED otherThanCache

CacheSetFailed ==
    /\ cachePhase = "ready" /\ savePc = "idle"
    /\ \E k \in Keys :
          /\ entries' = SetFailed(entries, k, now)
          /\ lastOp' = [NoOp EXCEPT !.op = "SetFailed", !.key = k, !.at = now]
    /\ lastGet' = NoGet
    /\ UNCHANGED <<now, diskFile, tempFile, cachePhase, savePc, saveResult,
                   savePrev, saveCount, loadResult>>
    /\ UNCHANGED otherThanCache

TickNano ==
    /\ cachePhase = "ready" /\ savePc = "idle"
    /\ now.n < MaxNanos
    /\ now' = [now EXCEPT !.n = @ + 1]
    /\ lastGet' = NoGet
    /\ UNCHANGED <<entries, diskFile, tempFile, cachePhase, savePc, saveResult,
                   savePrev, saveCount, loadResult, lastOp>>
    /\ UNCHANGED otherThanCache

TickHour ==
    /\ cachePhase = "ready" /\ savePc = "idle"
    /\ now.h < MaxHours
    /\ now' = [now EXCEPT !.h = @ + 1]
    /\ lastGet' = NoGet
    /\ UNCHANGED <<entries, diskFile, tempFile, cachePhase, savePc, saveResult,
                   savePrev, saveCount, loadResult, lastOp>>
    /\ UNCHANGED otherThanCache

\* ---- SaveCache, one action per file-system call
SaveEnter ==
    /\ savePc = "idle"
    /\ savePc' = "create"
    /\ savePrev' = diskFile
    /\ saveCount' = saveCount + 1
    /\ saveResult' = "none"
    /\ lastGet' = NoGet
    /\ UNCHANGED <<entries, now, diskFile, tempFile, cachePhase, loadResult, lastOp>>

SaveReturn(result) ==
    /\ savePc' = "returned"
    /\ saveResult' = result
    /\ cachePhase' = "closed"

\* os.Create(tempFile)
SaveCreate ==
    /\ savePc = "create"
    /\ \/ /\ tempFile' = Created
          /\ savePc' = "encode"
          /\ UNCHANGED <<saveResult, cachePhase>>
       \/ /\ SaveReturn("err")
          /\ UNCHANGED tempFile
    /\ UNCHANGED <<entries, now, diskFile, savePrev, saveCount, loadResult, lastGet, lastOp>>
    /\ UNCHANGED otherThanCache

\* mutant of SaveEncode: the snapshot is encoded straight into the cache file
SaveEncode_InPlace ==
    /\ savePc = "encode"
    /\ \/ /\ diskFile' = Valid(entries)
          /\ savePc' = "rename"
          /\ UNCHANGED <<saveResult, cachePhase>>
       \/ /\ diskFile' = Corrupt(EmptyEntries)
          /\ SaveReturn("err")
    /\ UNCHANGED <<entries, now, tempFile, savePrev, saveCount, loadResult, lastGet, lastOp>>
    /\ UNCHANGED otherThanCache

\* encoder.Encode(c.entries); file.Close(); on failure os.Remove(tempFile)
SaveEncode ==
    /\ savePc = "encode"
    /\ \/ /\ tempFile' = Valid(entries)
          /\ savePc' = "rename"
          /\ UNCHANGED <<saveResult, cachePhase>>
       \/ /\ tempFile' = Missing
          /\ SaveReturn("err")
    /\ UNCHANGED <<entries, now, diskFile, savePrev, saveCount, loadResult, lastGet, lastOp>>
    /\ UNCHANGED otherThanCache

\* os.Rename(tempFile, c.filePath); on failure os.Remove(tempFile)
SaveRename ==
    /\ savePc = "rename"
    /\ \/ /\ diskFile' = tempFile
          /\ tempFile' = Missing
          /\ SaveReturn("nil")
       \/ /\ tempFile' = Missing
          /\ SaveReturn("err")
          /\ UNCHANGED diskFile
    /\ UNCHANGED <<entries, now, savePrev, saveCount, loadResult, lastGet, lastOp>>
    /\ UNCHANGED otherThanCache

SaveCache ==
    /\ cachePhase = "ready"
    /\ SaveEnter
    /\ UNCHANGED otherThanCache

CacheNext ==
    \/ LoadCache
    \/ CacheGet
    \/ CacheSet
    \/ CacheSetFailed
    \/ TickNano
    \/ TickHour
    \/ SaveCache
    \/ SaveCreate
    \/ SaveEncode
    \/ SaveRename

CacheSpec == CacheSpecInit /\ [][CacheNext]_vars

----------------------------------------------------------------------------
\* internal/cache: goroutines calling the methods of one Cache, each method
\* taking Cache.mu as its first statement and releasing it by defer

Callers == 1..MaxCallers

CacheMethods == {"Get", "Set", "SetFailed", "LoadCache", "SaveCache", "Stats"}

\* the methods that take the write lock, whatever they then do
LockOf_AllShared(method) == "RLock"

\* c.mu.Lock() or c.mu.RLock(), as each method's first statement has it
LockOf(method) == IF method \in {"Set", "SetFailed", "LoadCache"} THEN "Lock" ELSE "RLock"

\* the methods that assign to the entries map or have it decoded into
WritesEntries(method) == method \in {"Set", "SetFailed", "LoadCache"}

\* the cache file the callers find: none, or one that holds an entry
LockFiles == {Missing, Valid(Set(EmptyEntries, "u1", "f1", "t1", ZeroTime))}

LockInit ==
    /\ CacheInit
    /\ diskFile \in LockFiles
    /\ ExportIdle
    /\ ImportIdle
    /\ LockIdle
    /\ DiscoverIdle
    /\ RssIdle
    /\ RunIdle
    /\ FetchIdle
    /\ ExtraIdle

lockFrame == <<exportVars, importVars, discoverVars, rssVars, runVars, fetchVars, extraVars, now, tempFile, cachePhase, savePc, saveResult, savePrev,
               saveCount, loadResult, lastGet, lastOp>>

\* a goroutine calls a method of the cache; the calls are all about one URL
callMethod(t) ==
    /\ caller[t].pc = "idle"
    /\ \E method \in CacheMethods :
          caller' = [caller EXCEPT ![t] = [pc |-> "lock", method |-> method, key |-> "u1",
                                           feed |-> IF method = "Set" THEN <<"f1", "t1">>
                                                                      ELSE <<"", "">>,
                                           seen |-> NoEntry]]
    /\ UNCHANGED <<lockFrame, entries, diskFile, mu>>

\* sync.RWMutex: Lock waits for the writer and every reader to leave, RLock for the writer
lockAcquire(t) ==
    /\ caller[t].pc = "lock"
    /\ IF LockOf(caller[t].method) = "Lock"
       THEN /\ ~mu.writer /\ mu.readers = 0
            /\ mu' = [mu EXCEPT !.writer = TRUE]
       ELSE /\ ~mu.writer
            /\ mu' = [mu EXCEPT !.readers = @ + 1]
    /\ caller' = [caller EXCEPT ![t].pc = "body"]
    /\ UNCHANGED <<lockFrame, entries, diskFile>>

\* the body of the method, between the lock and the deferred unlock
methodBody(t) ==
    /\ caller[t].pc = "body"
    /\ LET c == caller[t]
       IN  CASE c.method = "Get" ->
                  /\ caller' = [caller EXCEPT ![t].pc = "unlock",
                                              ![t].seen = Get(entries, c.key, 1, now)]
                  /\ UNCHANGED <<entries, diskFile>>
             [] c.method = "Set" ->
                  /\ entries' = Set(entries, c.key, c.feed[1], c.feed[2], now)
                  /\ caller' = [caller EXCEPT ![t].pc = "unlock"]
                  /\ UNCHANGED diskFile
             [] c.method = "SetFailed" ->
                  /\ entries' = SetFailed(entries, c.key, now)
                  /\ caller' = [caller EXCEPT ![t].pc = "unlock"]
                  /\ UNCHANGED diskFile
             [] c.method = "LoadCache" ->
                  /\ entries' = LoadCacheEntries(entries, diskFile)
                  /\ caller' = [caller EXCEPT ![t].pc = "unlock"]
                  /\ UNCHANGED diskFile
             [] c.method = "SaveCache" ->
                  /\ \E written \in BOOLEAN :
                        diskFile' = IF written THEN Valid(entries) ELSE diskFile
                  /\ caller' = [caller EXCEPT ![t].pc = "unlock"]
                  /\ UNCHANGED entries
             [] OTHER ->
                  /\ caller' = [caller EXCEPT ![t].pc = "unlock"]
                  /\ UNCHANGED <<entries, diskFile>>
    /\ UNCHANGED <<lockFrame, mu>>

\* defer c.mu.Unlock() or defer c.mu.RUnlock()
lockRelease(t) ==
    /\ caller[t].pc = "unlock"
    /\ mu' = IF LockOf(caller[t].method) = "Lock"
             THEN [mu EXCEPT !.writer = FALSE]
             ELSE [mu EXCEPT !.readers = @ - 1]
    /\ caller' = [caller EXCEPT ![t] = IdleCaller]
    /\ UNCHANGED <<lockFrame, entries, diskFile>>

LockNext ==
    \/ \E t \in Callers : callMethod(t)
    \/ \E t \in Callers : lockAcquire(t)
    \/ \E t \in Callers : methodBody(t)
    \/ \E t \in Callers : lockRelease(t)

LockSpec == LockInit /\ [][LockNext]_vars


----------------------------------------------------------------------------
\* internal/feeds/processor.go: ProcessBookmarks, worker, processBookmark

\* the entry's age is more than m hours
AgeExceeds(ts, t, m) ==
    \/ t.h - ts.h > m
    \/ t.h - ts.h = m /\ t.n - ts.n > 0

\* history: what the cache held for a URL when processBookmark looked it up
LookupKind(e, m, t) ==
    IF ~e.present THEN "absent"
    ELSE IF AgeExceeds(e.Timestamp, t, m) THEN "stale"
    ELSE IF e.FeedURL = "" THEN "negative"
    ELSE "positive"

NoHist == [net |-> "unset", lookup |-> "none", fetches |-> 0, writes |-> 0,
           hitIncs |-> 0, newIncs |-> 0, done |-> FALSE, ok |-> FALSE]

IsSuccessful(r) == r.Error = "" /\ r.FeedURL # "" /\ r.FeedTitle # ""

\* what the network answers to a discovery
NetChoices == {"ok", "err"}

DiscoverFeedWithDebug(i, url, net) ==
    IF net = "ok"
    THEN [item |-> i, URL |-> url, FeedURL |-> "f1", FeedTitle |-> "t1", Error |-> ""]
    ELSE [item |-> i, URL |-> url, FeedURL |-> "", FeedTitle |-> "",
          Error |-> "discovery failed"]

\* the result processBookmark builds from a cache hit
CachedResult(i, url, cachedEntry) ==
    [item |-> i, URL |-> url, FeedURL |-> cachedEntry.FeedURL,
     FeedTitle |-> cachedEntry.FeedTitle,
     Error |-> IF HasFeed(cachedEntry) THEN "" ELSE "no feed found (cached)"]

ExportMaxAges == {1}

BookmarkLists == UNION {[1..n -> Keys] : n \in 0..MaxBookmarks}

Workers == 1..MaxPool

\* ProcessBookmarks is entered with a cache that LoadCache has filled
ExportInit ==
    /\ bookmarks \in BookmarkLists
    /\ pConfig \in [Concurrency : 1..MaxPool, MaxAge : ExportMaxAges]
    /\ entries \in OldSnapshots
    /\ diskFile = Valid(entries)
    /\ now = ZeroTime
    /\ tempFile = Missing
    /\ cachePhase = "ready"
    /\ savePc = "idle"
    /\ saveResult = "none"
    /\ savePrev = Missing
    /\ saveCount = 0
    /\ loadResult = "nil"
    /\ lastGet = NoGet
    /\ lastOp = NoOp
    /\ bookmarkChan = <<>>
    /\ bookmarkClosed = FALSE
    /\ resultChan = <<>>
    /\ resultClosed = FALSE
    /\ pwg = 0
    /\ pSent = 0
    /\ pMain = "start"
    /\ pCloser = "off"
    /\ pWorker = [w \in Workers |-> IdleWorker]
    /\ pStats = [ZeroStats EXCEPT !.TotalBookmarks = Len(bookmarks)]
    /\ successful = <<>>
    /\ pHist = [i \in 1..Len(bookmarks) |-> NoHist]
    /\ ImportIdle
    /\ LockIdle
    /\ DiscoverIdle
    /\ RssIdle
    /\ RunIdle
    /\ FetchIdle
    /\ ExtraIdle

cacheFrame == <<importVars, sideVars, now, diskFile, tempFile, cachePhase, savePc, saveResult, savePrev,
                saveCount, loadResult, lastGet, lastOp>>

\* wg.Add(1); go worker(...), Concurrency times
StartWorkers ==
    /\ pMain = "start"
    /\ pMain' = "send"
    /\ pwg' = pConfig.Concurrency
    /\ pWorker' = [w \in Workers |->
                     IF w <= pConfig.Concurrency
                     THEN [IdleWorker EXCEPT !.pc = "recv"] ELSE IdleWorker]
    /\ UNCHANGED <<cacheFrame, entries, bookmarks, pConfig, bookmarkChan, bookmarkClosed,
                   resultChan, resultClosed, pSent, pCloser, pStats, successful, pHist>>

\* bookmarkChan <- bookmark
SendBookmark ==
    /\ pMain = "send"
    /\ pSent < Len(bookmarks)
    /\ bookmarkChan' = Append(bookmarkChan, pSent + 1)
    /\ pSent' = pSent + 1
    /\ UNCHANGED <<cacheFrame, entries, bookmarks, pConfig, bookmarkClosed, resultChan,
                   resultClosed, pwg, pMain, pCloser, pWorker, pStats, successful, pHist>>

\* close(bookmarkChan); go func() { wg.Wait(); close(resultChan) }()
CloseBookmarks ==
    /\ pMain = "send"
    /\ pSent = Len(bookmarks)
    /\ bookmarkClosed' = TRUE
    /\ pCloser' = "wait"
    /\ pMain' = "collect"
    /\ UNCHANGED <<cacheFrame, entries, bookmarks, pConfig, bookmarkChan, resultChan, pSent,
                   resultClosed, pwg, pWorker, pStats, successful, pHist>>

\* mutant of WaitAndClose: resultChan is closed without waiting for the workers
WaitAndClose_NoWait ==
    /\ pCloser = "wait"
    /\ resultClosed' = TRUE
    /\ pCloser' = "done"
    /\ UNCHANGED <<cacheFrame, entries, bookmarks, pConfig, bookmarkChan, bookmarkClosed,
                   resultChan, pSent, pwg, pMain, pWorker, pStats, successful, pHist>>

\* wg.Wait(); close(resultChan)
WaitAndClose ==
    /\ pCloser = "wait"
    /\ pwg = 0
    /\ resultClosed' = TRUE
    /\ pCloser' = "done"
    /\ UNCHANGED <<cacheFrame, entries, bookmarks, pConfig, bookmarkChan, bookmarkClosed,
                   resultChan, pSent, pwg, pMain, pWorker, pStats, successful, pHist>>

\* a collector that keeps every result it receives
CollectResult_KeepAll ==
    /\ pMain = "collect"
    /\ resultChan # <<>>
    /\ LET result == Head(resultChan)
       IN  /\ resultChan' = Tail(resultChan)
           /\ successful' = Append(successful, result)
           /\ pStats' = [pStats EXCEPT !.SuccessfulFeeds = @ + 1]
    /\ UNCHANGED <<cacheFrame, entries, bookmarks, pConfig, bookmarkChan, bookmarkClosed,
                   pSent, resultClosed, pwg, pMain, pCloser, pWorker, pHist>>

\* one iteration of: for result := range resultChan
CollectResult ==
    /\ pMain = "collect"
    /\ resultChan # <<>>
    /\ LET result == Head(resultChan)
       IN  /\ resultChan' = Tail(resultChan)
           /\ IF IsSuccessful(result)
              THEN /\ successful' = Append(successful, result)
                   /\ pStats' = [pStats EXCEPT !.SuccessfulFeeds = @ + 1]
              ELSE /\ pStats' = [pStats EXCEPT !.FailedDiscoveries = @ + 1]
                   /\ UNCHANGED successful
    /\ UNCHANGED <<cacheFrame, entries, bookmarks, pConfig, bookmarkChan, bookmarkClosed,
                   pSent, resultClosed, pwg, pMain, pCloser, pWorker, pHist>>

\* the range over resultChan ends; cache.SaveCache() is entered
SaveAfterCollect ==
    /\ pMain = "collect"
    /\ resultChan = <<>>
    /\ resultClosed
    /\ pMain' = "save"
    /\ SaveEnter
    /\ UNCHANGED <<importVars, sideVars, bookmarks, pConfig, bookmarkChan, bookmarkClosed, resultChan, pSent,
                   resultClosed, pwg, pCloser, pWorker, pStats, successful, pHist>>

\* SaveCache has returned (an error is only logged); return successful, stats
ReturnResults ==
    /\ pMain = "save"
    /\ savePc = "returned"
    /\ pMain' = "done"
    /\ UNCHANGED <<importVars, sideVars, cacheVars, bookmarks, pConfig, bookmarkChan, bookmarkClosed, resultChan,
                   pSent, resultClosed, pwg, pCloser, pWorker, pStats, successful, pHist>>

\* ---- worker: for bookmark := range bookmarkChan
workerFrame == <<cacheFrame, bookmarks, pConfig, bookmarkClosed, pSent, resultClosed,
                 pMain, pCloser, successful>>

workerRecv(w) ==
    /\ pWorker[w].pc = "recv"
    /\ bookmarkChan # <<>>
    /\ LET i == Head(bookmarkChan)
       IN  /\ pWorker' = [pWorker EXCEPT ![w].pc = "get", ![w].item = i]
           /\ \E net \in NetChoices : pHist' = [pHist EXCEPT ![i].net = net]
    /\ bookmarkChan' = Tail(bookmarkChan)
    /\ UNCHANGED <<workerFrame, entries, resultChan, pwg, pStats>>

\* the channel is closed and drained: the loop ends, wg.Done() runs
workerExit(w) ==
    /\ pWorker[w].pc = "recv"
    /\ bookmarkChan = <<>>
    /\ bookmarkClosed
    /\ pWorker' = [pWorker EXCEPT ![w].pc = "exited"]
    /\ pwg' = pwg - 1
    /\ UNCHANGED <<workerFrame, entries, bookmarkChan, resultChan, pStats, pHist>>

\* cache.Get(bookmark.URL, config.MaxAge)
processBookmarkGet(w) ==
    /\ pWorker[w].pc = "get"
    /\ LET i == pWorker[w].item
           url == bookmarks[i]
           cachedEntry == Get(entries, url, pConfig.MaxAge, now)
       IN  /\ pWorker' = [pWorker EXCEPT
                            ![w].cached = cachedEntry,
                            ![w].pc = IF cachedEntry.present THEN "hitLoad" ELSE "newLoad"]
           /\ pHist' = [pHist EXCEPT
                            ![i].lookup = LookupKind(entries[url], pConfig.MaxAge, now)]
    /\ UNCHANGED <<workerFrame, entries, bookmarkChan, resultChan, pwg, pStats>>

\* stats.CacheHits++ is a plain load ...
processBookmarkHitLoad(w) ==
    /\ pWorker[w].pc = "hitLoad"
    /\ pWorker' = [pWorker EXCEPT ![w].tmp = pStats.CacheHits, ![w].pc = "hitStore"]
    /\ UNCHANGED <<workerFrame, entries, bookmarkChan, resultChan, pwg, pStats, pHist>>

\* ... and a plain store; the result is built from the cached entry
processBookmarkHitStore(w) ==
    /\ pWorker[w].pc = "hitStore"
    /\ LET i == pWorker[w].item
       IN  /\ pStats' = [pStats EXCEPT !.CacheHits = pWorker[w].tmp + 1]
           /\ pWorker' = [pWorker EXCEPT
                            ![w].result = CachedResult(i, bookmarks[i], pWorker[w].cached),
                            ![w].tmp = 0,
                            ![w].pc = "send"]
           /\ pHist' = [pHist EXCEPT ![i].hitIncs = @ + 1]
    /\ UNCHANGED <<workerFrame, entries, bookmarkChan, resultChan, pwg>>

\* stats.NewDiscoveries++ is a plain load ...
processBookmarkNewLoad(w) ==
    /\ pWorker[w].pc = "newLoad"
    /\ pWorker' = [pWorker EXCEPT ![w].tmp = pStats.NewDiscoveries, ![w].pc = "newStore"]
    /\ UNCHANGED <<workerFrame, entries, bookmarkChan, resultChan, pwg, pStats, pHist>>

\* ... and a plain store
processBookmarkNewStore(w) ==
    /\ pWorker[w].pc = "newStore"
    /\ pStats' = [pStats EXCEPT !.NewDiscoveries = pWorker[w].tmp + 1]
    /\ pWorker' = [pWorker EXCEPT ![w].tmp = 0, ![w].pc = "discover"]
    /\ pHist' = [pHist EXCEPT ![pWorker[w].item].newIncs = @ + 1]
    /\ UNCHANGED <<workerFrame, entries, bookmarkChan, resultChan, pwg>>

\* a processBookmark that caches successful discoveries only
processBookmarkDiscover_NoNegative(w) ==
    /\ pWorker[w].pc = "discover"
    /\ LET i == pWorker[w].item
           url == bookmarks[i]
           result == DiscoverFeedWithDebug(i, url, pHist[i].net)
       IN  /\ entries' = IF IsSuccessful(result)
                         THEN Set(entries, url, result.FeedURL, result.FeedTitle, now)
                         ELSE entries
           /\ pWorker' = [pWorker EXCEPT ![w].result = result, ![w].pc = "send"]
           /\ pHist' = [pHist EXCEPT ![i].fetches = @ + 1, ![i].writes = @ + 1]
    /\ UNCHANGED <<workerFrame, bookmarkChan, resultChan, pwg, pStats>>

\* DiscoverFeedWithDebug, then cache.Set or cache.SetFailed
processBookmarkDiscover(w) ==
    /\ pWorker[w].pc = "discover"
    /\ LET i == pWorker[w].item
           url == bookmarks[i]
           result == DiscoverFeedWithDebug(i, url, pHist[i].net)
       IN  /\ entries' = IF IsSuccessful(result)
                         THEN Set(entries, url, result.FeedURL, result.FeedTitle, now)
                         ELSE SetFailed(entries, url, now)
           /\ pWorker' = [pWorker EXCEPT ![w].result = result, ![w].pc = "send"]
           /\ pHist' = [pHist EXCEPT ![i].fetches = @ + 1, ![i].writes = @ + 1]
    /\ UNCHANGED <<workerFrame, bookmarkChan, resultChan, pwg, pStats>>

\* resultChan <- result
workerSend(w) ==
    /\ pWorker[w].pc = "send"
    /\ resultChan' = Append(resultChan, pWorker[w].result)
    /\ pHist' = [pHist EXCEPT ![pWorker[w].item].done = TRUE,
                              ![pWorker[w].item].ok = IsSuccessful(pWorker[w].result)]
    /\ pWorker' = [pWorker EXCEPT ![w] = [IdleWorker EXCEPT !.pc = "recv"]]
    /\ UNCHANGED <<workerFrame, entries, bookmarkChan, pwg, pStats>>

\* a FeedDiscoveryResult as an outline of the OPML body
Outline(result) ==
    [Title |-> result.FeedTitle, XMLURL |-> result.FeedURL, HTMLURL |-> result.URL]

\* opml.GenerateOPML: the outlines of the body, one per successful result
RECURSIVE GenerateOPML(_)
GenerateOPML(results) ==
    IF results = <<>> THEN <<>>
    ELSE (IF IsSuccessful(Head(results)) THEN <<Outline(Head(results))>> ELSE <<>>)
            \o GenerateOPML(Tail(results))

\* opml.ValidateOPML returns nil
ValidateOPML(outlines) ==
    \A k \in 1..Len(outlines) : outlines[k].XMLURL # "" /\ outlines[k].HTMLURL # ""

\* what opml.WriteOPML can answer
WriteAnswers == {"ok", "err"}

\* what runExport returns once the OPML file is written and the summary printed
runExportReturn == "nil"

\* runExport after ProcessBookmarks: generate, validate, write, print the summary, return
runExportFinish ==
    /\ pMain = "done"
    /\ runResult.returned = "none"
    /\ IF successful = <<>>
       THEN runResult' = [NoRun EXCEPT !.returned = "nil"]
       ELSE LET outlines == GenerateOPML(successful)
            IN  IF ~ValidateOPML(outlines)
                THEN runResult' = [NoRun EXCEPT !.returned = "err"]
                ELSE \E answer \in WriteAnswers :
                       IF answer = "err"
                       THEN runResult' = [NoRun EXCEPT !.returned = "err",
                                                       !.file = "partial"]
                       ELSE runResult' = [returned |-> runExportReturn, summary |-> TRUE,
                                          file |-> "written", output |-> outlines]
    /\ UNCHANGED <<cacheVars, exportVars, importVars, lockVars, discoverVars, rssVars,
                   fetchVars, extraVars>>

ExportNext ==
    \/ runExportFinish
    \/ StartWorkers
    \/ SendBookmark
    \/ CloseBookmarks
    \/ WaitAndClose
    \/ CollectResult
    \/ SaveAfterCollect
    \/ SaveCreate
    \/ SaveEncode
    \/ SaveRename
    \/ ReturnResults
    \/ \E w \in Workers : workerRecv(w)
    \/ \E w \in Workers : workerExit(w)
    \/ \E w \in Workers : processBookmarkGet(w)
    \/ \E w \in Workers : processBookmarkHitLoad(w)
    \/ \E w \in Workers : processBookmarkHitStore(w)
    \/ \E w \in Workers : processBookmarkNewLoad(w)
    \/ \E w \in Workers : processBookmarkNewStore(w)
    \/ \E w \in Workers : processBookmarkDiscover(w)
    \/ \E w \in Workers : workerSend(w)

ExportSpec == ExportInit /\ [][ExportNext]_vars

\* every goroutine that can take a step eventually takes one
ExportFairSpec == ExportSpec /\ WF_vars(ExportNext)

\* ProcessBookmarks while the clock advances
ExportClockNext ==
    \/ ExportNext
    \/ TickNano
    \/ TickHour

ExportClockSpec == ExportInit /\ [][ExportClockNext]_vars

----------------------------------------------------------------------------
\* internal/importer: ProcessItems, its workers, retryOperation,
\* DiscoverBookmarkURL and ProcessBookmark

\* an error value is the chain of its wrapped messages, outermost first; nil is <<>>
Nil == <<>>

\* the feed entries an OPML file can give: both URLs, a feed URL only, no URL,
\* a website URL equal to the feed URL, a website URL only
ItemKinds == {[XMLURL |-> "x1", HTMLURL |-> "h1"],
              [XMLURL |-> "x1", HTMLURL |-> ""],
              [XMLURL |-> "", HTMLURL |-> ""],
              [XMLURL |-> "x1", HTMLURL |-> "x1"],
              [XMLURL |-> "", HTMLURL |-> "h1"]}

\* the kinds used when several items are processed together
PoolKinds == {k \in ItemKinds : k.HTMLURL \in {"", "h1"} /\ (k.HTMLURL = "h1" => k.XMLURL = "x1")}

ImportItem(k) == [XMLURL |-> k.XMLURL, HTMLURL |-> k.HTMLURL, DiscoveredURL |-> "",
                  Status |-> "StatusPending", Error |-> Nil, WasUpdated |-> FALSE]

ItemLists == UNION {[1..n -> {ImportItem(k) : k \in IF n = 1 THEN ItemKinds ELSE PoolKinds}]
                       : n \in 0..MaxItems}

UpdateWithDiscoveredData(item, url) == [item EXCEPT !.DiscoveredURL = url]

GetFinalURL(item) == IF item.DiscoveredURL # "" THEN item.DiscoveredURL ELSE item.XMLURL

\* what fetching the feed answers: an error, a feed without a link, a feed with a link
FeedAnswers == {"err", "nolink", "link"}

FeedLink == "w1"

\* DiscoverBookmarkURL that gives up when the feed cannot be fetched
DiscoverBookmarkURL_FailOnFetchError(item, feed) ==
    IF item.HTMLURL # "" /\ item.HTMLURL # item.XMLURL
    THEN [item |-> UpdateWithDiscoveredData(item, item.HTMLURL), err |-> Nil, fetches |-> 0]
    ELSE IF item.XMLURL # "" /\ feed = "link"
    THEN [item |-> UpdateWithDiscoveredData(item, FeedLink), err |-> Nil, fetches |-> 1]
    ELSE IF item.XMLURL = "" \/ feed = "err"
    THEN [item |-> item, err |-> <<"no URL available for bookmark">>,
          fetches |-> IF item.XMLURL # "" THEN 1 ELSE 0]
    ELSE [item |-> UpdateWithDiscoveredData(item, item.XMLURL), err |-> Nil, fetches |-> 1]

\* DiscoverBookmarkURL that fetches the feed before it looks at the page hint
DiscoverBookmarkURL_FetchFirst(item, feed) ==
    IF item.HTMLURL # "" /\ item.HTMLURL # item.XMLURL
    THEN [item |-> UpdateWithDiscoveredData(item, item.HTMLURL), err |-> Nil,
          fetches |-> IF item.XMLURL # "" THEN 1 ELSE 0]
    ELSE IF item.XMLURL # "" /\ feed = "link"
    THEN [item |-> UpdateWithDiscoveredData(item, FeedLink), err |-> Nil, fetches |-> 1]
    ELSE IF item.XMLURL = ""
    THEN [item |-> item, err |-> <<"no URL available for bookmark">>, fetches |-> 0]
    ELSE [item |-> UpdateWithDiscoveredData(item, item.XMLURL), err |-> Nil, fetches |-> 1]

\* the item after the call, the error returned, and the number of FetchFeed calls made
DiscoverBookmarkURL(item, feed) ==
    IF item.HTMLURL # "" /\ item.HTMLURL # item.XMLURL
    THEN [item |-> UpdateWithDiscoveredData(item, item.HTMLURL), err |-> Nil, fetches |-> 0]
    ELSE IF item.XMLURL # "" /\ feed = "link"
    THEN [item |-> UpdateWithDiscoveredData(item, FeedLink), err |-> Nil, fetches |-> 1]
    ELSE IF item.XMLURL = ""
    THEN [item |-> item, err |-> <<"no URL available for bookmark">>, fetches |-> 0]
    ELSE [item |-> UpdateWithDiscoveredData(item, item.XMLURL), err |-> Nil, fetches |-> 1]

\* the error retryOperation returns when its attempts are used up
RetryFailed(lastErr) == <<"operation failed after attempts">> \o lastErr

\* what a call of the Linkding API answers
ApiAnswers == {"ok", "err"}

ApiError == <<"linkding request failed">>

\* the ID Linkding gives the bookmark of a URL
IdOf(u) == CASE u = "h1" -> 1 [] u = "x1" -> 2 [] OTHER -> 3

InitialServices == {[u \in URLs |-> IF u \in S THEN IdOf(u) ELSE 0] : S \in {{}, {"h1"}, URLs}}

\* cmd/import.go passes a nil client exactly in dry-run mode
linkdingClientIsNil == options.DryRun

\* a ProcessBookmark that contacts the service in every mode
CallsService_Always == TRUE

\* if !options.DryRun && client != nil: ProcessBookmark contacts the service
CallsService == ~options.DryRun /\ ~linkdingClientIsNil

DuplicateActions == {"skip", "update"}

ImportWorkers == 1..MaxImportPool

NewImportStats(total) == [ZeroImportStats EXCEPT !.Total = total]

IncrementProcessed(s) == [s EXCEPT !.Processed = @ + 1]

IncrementImported(s) == [s EXCEPT !.Imported = @ + 1]

IncrementUpdated(s) == [s EXCEPT !.Updated = @ + 1]

IncrementSkipped(s) == [s EXCEPT !.Skipped = @ + 1]

IncrementFailed(s) == [s EXCEPT !.Failed = @ + 1]

ImportInit ==
    /\ items \in ItemLists
    /\ options \in [DuplicateAction : DuplicateActions, DryRun : BOOLEAN,
                    RetryAttempts : (0 - 1)..MaxRetry]
    /\ concurrency \in 1..MaxImportPool
    /\ service \in InitialServices
    /\ workQueue = <<>>
    /\ workClosed = FALSE
    /\ iSent = 0
    /\ iwg = 0
    /\ iMain = "start"
    /\ iWorker = [w \in ImportWorkers |-> IdleImportWorker]
    /\ stats = NewImportStats(Len(items))
    /\ iHist = [i \in 1..Len(items) |-> NoItemHist]
    /\ CacheInit /\ diskFile = Missing
    /\ ExportIdle
    /\ LockIdle
    /\ DiscoverIdle
    /\ RssIdle
    /\ RunIdle
    /\ FetchIdle
    /\ ExtraIdle

importFrame == <<cacheVars, exportVars, sideVars, items, options, concurrency>>

\* ProcessItems starts its workers before it sends any item
StartImportWorkers ==
    /\ iMain = "start"
    /\ iwg' = concurrency
    /\ iWorker' = [w \in ImportWorkers |->
                      IF w <= concurrency THEN [IdleImportWorker EXCEPT !.pc = "recv"]
                                          ELSE IdleImportWorker]
    /\ iMain' = "send"
    /\ UNCHANGED <<importFrame, service, workQueue, workClosed, iSent, stats, iHist>>

\* workQueue <- item; the queue has room for every item
SendItem ==
    /\ iMain = "send" /\ iSent < Len(items)
    /\ workQueue' = Append(workQueue, iSent + 1)
    /\ iSent' = iSent + 1
    /\ UNCHANGED <<importFrame, service, workClosed, iwg, iMain, iWorker, stats, iHist>>

CloseWorkQueue ==
    /\ iMain = "send" /\ iSent = Len(items)
    /\ workClosed' = TRUE
    /\ iMain' = "wait"
    /\ UNCHANGED <<importFrame, service, workQueue, iSent, iwg, iWorker, stats, iHist>>

\* wg.Wait(), stats.Finish(), return stats
WaitAndFinish ==
    /\ iMain = "wait" /\ iwg = 0
    /\ iMain' = "done"
    /\ UNCHANGED <<importFrame, service, workQueue, workClosed, iSent, iwg, iWorker, stats,
                   iHist>>

\* for item := range workQueue, an item is there
importWorkerRecv(w) ==
    /\ iWorker[w].pc = "recv" /\ workQueue # <<>>
    /\ workQueue' = Tail(workQueue)
    /\ iWorker' = [iWorker EXCEPT ![w] = [pc |-> "discover", item |-> Head(workQueue),
                                          attempt |-> 1, existing |-> 0]]
    /\ iHist' = [iHist EXCEPT ![Head(workQueue)].recv = @ + 1]
    /\ UNCHANGED <<importFrame, service, workClosed, iSent, iwg, iMain, stats>>

\* for item := range workQueue, the queue is closed and drained: defer wg.Done()
importWorkerExit_OnEmpty(w) ==
    /\ iWorker[w].pc = "recv" /\ workQueue = <<>>
    /\ iWorker' = [iWorker EXCEPT ![w] = [IdleImportWorker EXCEPT !.pc = "exited"]]
    /\ iwg' = iwg - 1
    /\ UNCHANGED <<importFrame, service, workQueue, workClosed, iSent, iMain, stats, iHist>>

importWorkerExit(w) ==
    /\ iWorker[w].pc = "recv" /\ workQueue = <<>> /\ workClosed
    /\ iWorker' = [iWorker EXCEPT ![w] = [IdleImportWorker EXCEPT !.pc = "exited"]]
    /\ iwg' = iwg - 1
    /\ UNCHANGED <<importFrame, service, workQueue, workClosed, iSent, iMain, stats, iHist>>

\* a worker that gives up on its item without counting it as processed
itemFailed_NotProcessed(w, item, lastErr) ==
    /\ items' = [items EXCEPT ![iWorker[w].item] =
                    [item EXCEPT !.Status = "StatusFailed", !.Error = RetryFailed(lastErr)]]
    /\ stats' = IncrementFailed(stats)
    /\ iWorker' = [iWorker EXCEPT ![w] = [IdleImportWorker EXCEPT !.pc = "recv"]]

\* the worker gives up on its item: retryOperation returned lastErr wrapped
itemFailed(w, item, lastErr) ==
    /\ items' = [items EXCEPT ![iWorker[w].item] =
                    [item EXCEPT !.Status = "StatusFailed", !.Error = RetryFailed(lastErr)]]
    /\ stats' = IncrementProcessed(IncrementFailed(stats))
    /\ iWorker' = [iWorker EXCEPT ![w] = [IdleImportWorker EXCEPT !.pc = "recv"]]

\* a loop that makes its first call whatever maxAttempts is
LoopEnded_AfterFirstCall(n, max) == n > max /\ n > 1

\* for attempt := 1; attempt <= maxAttempts; attempt++: the loop is over
LoopEnded(n, max) == n > max

\* one turn of retryOperation around DiscoverBookmarkURL, its backoff sleep included
discoverAttempt(w) ==
    /\ iWorker[w].pc = "discover"
    /\ LET i == iWorker[w].item
           item == items[i]
       IN  IF LoopEnded(iWorker[w].attempt, options.RetryAttempts)
           THEN /\ itemFailed(w, item, Nil)
                /\ UNCHANGED iHist
           ELSE \E feed \in FeedAnswers :
                  LET r == DiscoverBookmarkURL(item, feed)
                  IN  /\ iHist' = [iHist EXCEPT
                             ![i].discovered = IF r.err = Nil THEN "nil" ELSE "err",
                             ![i].fetches = r.fetches,
                             ![i].feed = IF r.fetches > 0 THEN feed ELSE "unused"]
                      /\ IF r.err = Nil
                         THEN /\ items' = [items EXCEPT ![i] = r.item]
                              /\ iWorker' = [iWorker EXCEPT ![w].pc = "lookup",
                                                            ![w].attempt = 1]
                              /\ UNCHANGED stats
                         ELSE IF iWorker[w].attempt < options.RetryAttempts
                         THEN /\ items' = [items EXCEPT ![i] = r.item]
                              /\ iWorker' = [iWorker EXCEPT ![w].attempt = @ + 1]
                              /\ UNCHANGED stats
                         ELSE itemFailed(w, r.item, r.err)
    /\ UNCHANGED <<cacheVars, exportVars, sideVars, options, concurrency, service, workQueue,
                   workClosed, iSent, iwg, iMain>>

\* a retryOperation that forgets the error of the last attempt when it gives up
bookmarkReturned_DropsError(w, item, err) ==
    IF err = Nil
    THEN /\ items' = [items EXCEPT ![iWorker[w].item] = item]
         /\ stats' = IncrementProcessed(
                        IF item.Status = "StatusSuccess"
                        THEN IF item.WasUpdated THEN IncrementUpdated(stats)
                                                ELSE IncrementImported(stats)
                        ELSE IF item.Status = "StatusSkipped"
                        THEN IncrementSkipped(stats)
                        ELSE stats)
         /\ iWorker' = [iWorker EXCEPT ![w] = [IdleImportWorker EXCEPT !.pc = "recv"]]
    ELSE IF iWorker[w].attempt < options.RetryAttempts
    THEN /\ items' = [items EXCEPT ![iWorker[w].item] = item]
         /\ iWorker' = [iWorker EXCEPT ![w].pc = "lookup", ![w].attempt = @ + 1,
                                       ![w].existing = 0]
         /\ UNCHANGED stats
    ELSE itemFailed(w, item, Nil)

\* ProcessBookmark returned err to retryOperation, which returns or goes round again
bookmarkReturned(w, item, err) ==
    IF err = Nil
    THEN /\ items' = [items EXCEPT ![iWorker[w].item] = item]
         /\ stats' = IncrementProcessed(
                        IF item.Status = "StatusSuccess"
                        THEN IF item.WasUpdated THEN IncrementUpdated(stats)
                                                ELSE IncrementImported(stats)
                        ELSE IF item.Status = "StatusSkipped"
                        THEN IncrementSkipped(stats)
                        ELSE stats)
         /\ iWorker' = [iWorker EXCEPT ![w] = [IdleImportWorker EXCEPT !.pc = "recv"]]
    ELSE IF iWorker[w].attempt < options.RetryAttempts
    THEN /\ items' = [items EXCEPT ![iWorker[w].item] = item]
         /\ iWorker' = [iWorker EXCEPT ![w].pc = "lookup", ![w].attempt = @ + 1,
                                       ![w].existing = 0]
         /\ UNCHANGED stats
    ELSE itemFailed(w, item, err)

\* ProcessBookmark up to the answer of GetBookmarkByURL
ProcessBookmarkLookup(w) ==
    /\ iWorker[w].pc = "lookup"
    /\ LET i == iWorker[w].item
           item == items[i]
           finalURL == GetFinalURL(item)
           h == [iHist[i] EXCEPT !.calls = @ + 1, !.lookup = "none", !.existingID = 0,
                                  !.creates = 0, !.updates = 0, !.updateID = 0,
                                  !.returned = "none"]
       IN  IF finalURL = ""
           THEN /\ bookmarkReturned(w, item, <<"no valid URL found for bookmark">>)
                /\ iHist' = [iHist EXCEPT ![i] = [h EXCEPT !.returned = "err"]]
           ELSE IF CallsService
           THEN \E answer \in ApiAnswers :
                  IF answer = "err"
                  THEN /\ bookmarkReturned(w, item,
                              <<"failed to check for existing bookmark">> \o ApiError)
                       /\ iHist' = [iHist EXCEPT ![i] = [h EXCEPT !.lookup = "error",
                                                                  !.returned = "err"]]
                  ELSE /\ iWorker' = [iWorker EXCEPT ![w].pc = "mutate",
                                                     ![w].existing = service[finalURL]]
                       /\ iHist' = [iHist EXCEPT ![i] =
                                       [h EXCEPT !.lookup = IF service[finalURL] # 0
                                                            THEN "found" ELSE "missing",
                                                 !.existingID = service[finalURL]]]
                       /\ UNCHANGED <<items, stats>>
           ELSE /\ iWorker' = [iWorker EXCEPT ![w].pc = "mutate", ![w].existing = 0]
                /\ iHist' = [iHist EXCEPT ![i] = [h EXCEPT !.lookup = "simulated"]]
                /\ UNCHANGED <<items, stats>>
    /\ UNCHANGED <<cacheVars, exportVars, sideVars, options, concurrency, service, workQueue, workClosed,
                   iSent, iwg, iMain>>

\* the rest of ProcessBookmark, with CreateBookmark whatever GetBookmarkByURL answered
ProcessBookmarkMutate_CreateAlways(w) ==
    /\ iWorker[w].pc = "mutate"
    /\ LET i == iWorker[w].item
           item == items[i]
           finalURL == GetFinalURL(item)
       IN  /\ service' = [service EXCEPT ![finalURL] = IdOf(finalURL)]
           /\ bookmarkReturned(w, [item EXCEPT !.Status = "StatusSuccess"], Nil)
           /\ iHist' = [iHist EXCEPT ![i].creates = @ + 1, ![i].returned = "nil"]
    /\ UNCHANGED <<cacheVars, exportVars, sideVars, options, concurrency, workQueue, workClosed,
                   iSent, iwg, iMain>>

\* the rest of ProcessBookmark: skip, UpdateBookmark or CreateBookmark
ProcessBookmarkMutate(w) ==
    /\ iWorker[w].pc = "mutate"
    /\ LET i == iWorker[w].item
           item == items[i]
           finalURL == GetFinalURL(item)
           existing == iWorker[w].existing
       IN  IF existing # 0
           THEN IF options.DuplicateAction = "skip"
                THEN /\ bookmarkReturned(w, [item EXCEPT !.Status = "StatusSkipped"], Nil)
                     /\ iHist' = [iHist EXCEPT ![i].returned = "nil"]
                     /\ UNCHANGED service
                ELSE IF options.DuplicateAction = "update"
                THEN IF CallsService
                     THEN \E answer \in ApiAnswers :
                            /\ IF answer = "err"
                               THEN /\ bookmarkReturned(w,
                                          [item EXCEPT !.Status = "StatusFailed",
                                                       !.Error = ApiError],
                                          <<"failed to update bookmark">> \o ApiError)
                                    /\ iHist' = [iHist EXCEPT ![i].updates = @ + 1,
                                                              ![i].updateID = existing,
                                                              ![i].returned = "err"]
                               ELSE /\ bookmarkReturned(w,
                                          [item EXCEPT !.Status = "StatusSuccess",
                                                       !.WasUpdated = TRUE], Nil)
                                    /\ iHist' = [iHist EXCEPT ![i].updates = @ + 1,
                                                              ![i].updateID = existing,
                                                              ![i].returned = "nil"]
                            /\ UNCHANGED service
                     ELSE /\ bookmarkReturned(w, [item EXCEPT !.Status = "StatusSuccess",
                                                              !.WasUpdated = TRUE], Nil)
                          /\ iHist' = [iHist EXCEPT ![i].returned = "nil"]
                          /\ UNCHANGED service
                ELSE /\ bookmarkReturned(w, item, <<"unknown duplicate action">>)
                     /\ iHist' = [iHist EXCEPT ![i].returned = "err"]
                     /\ UNCHANGED service
           ELSE IF CallsService
                THEN \E answer \in ApiAnswers :
                       IF answer = "err"
                       THEN /\ bookmarkReturned(w,
                                  [item EXCEPT !.Status = "StatusFailed", !.Error = ApiError],
                                  <<"failed to create bookmark">> \o ApiError)
                            /\ iHist' = [iHist EXCEPT ![i].creates = @ + 1,
                                                      ![i].returned = "err",
                                                      ![i].createOver =
                                                          IF service[finalURL] # 0
                                                          THEN @ + 1 ELSE @]
                            /\ UNCHANGED service
                       ELSE /\ service' = [service EXCEPT ![finalURL] = IdOf(finalURL)]
                            /\ bookmarkReturned(w, [item EXCEPT !.Status = "StatusSuccess"],
                                                Nil)
                            /\ iHist' = [iHist EXCEPT ![i].creates = @ + 1,
                                                      ![i].returned = "nil",
                                                      ![i].createOver =
                                                          IF service[finalURL] # 0
                                                          THEN @ + 1 ELSE @]
                ELSE /\ bookmarkReturned(w, [item EXCEPT !.Status = "StatusSuccess"], Nil)
                     /\ iHist' = [iHist EXCEPT ![i].returned = "nil"]
                     /\ UNCHANGED service
    /\ UNCHANGED <<cacheVars, exportVars, sideVars, options, concurrency, workQueue, workClosed,
                   iSent, iwg, iMain>>

ImportNext ==
    \/ StartImportWorkers
    \/ SendItem
    \/ CloseWorkQueue
    \/ WaitAndFinish
    \/ \E w \in ImportWorkers : importWorkerRecv(w)
    \/ \E w \in ImportWorkers : importWorkerExit(w)
    \/ \E w \in ImportWorkers : discoverAttempt(w)
    \/ \E w \in ImportWorkers : ProcessBookmarkLookup(w)
    \/ \E w \in ImportWorkers : ProcessBookmarkMutate(w)

ImportSpec == ImportInit /\ [][ImportNext]_vars

\* every goroutine that can take a step eventually takes one
ImportFairSpec == ImportSpec /\ WF_vars(ImportNext)

----------------------------------------------------------------------------
\* internal/feeds: a document fetched as a feed, and what the parsers make of it

\* the characters of a link text: a letter, a slash, a blank
LinkChars == {"c", "/", " "}

LinkTexts == UNION {[1..n -> LinkChars] : n \in 0..MaxLinkText}

\* the titles a document can carry: none, blanks only, a title, a title in blanks
Titles == {"", " ", "t", " t "}

\* a document: whether it is well-formed XML, the name of its root element,
\* the text of its title element and the text of its one website link
FeedDocuments == [wellFormed : BOOLEAN, root : {"rss", "feed", "RDF", "html"},
                  title : Titles, link : LinkTexts]

\* strings.TrimSuffix(s, "/")
TrimSuffix(s) ==
    IF Len(s) > 0 /\ s[Len(s)] = "/" THEN SubSeq(s, 1, Len(s) - 1) ELSE s

RECURSIVE TrimLeft(_)
TrimLeft(s) == IF Len(s) > 0 /\ Head(s) = " " THEN TrimLeft(Tail(s)) ELSE s

RECURSIVE TrimRight(_)
TrimRight(s) ==
    IF Len(s) > 0 /\ s[Len(s)] = " " THEN TrimRight(SubSeq(s, 1, Len(s) - 1)) ELSE s

\* strings.TrimSpace(s)
TrimSpace(s) == TrimRight(TrimLeft(s))

\* strings.TrimSpace on a title
TrimSpaceTitle(title) ==
    CASE title = " " -> ""
      [] title = " t " -> "t"
      [] OTHER -> title

\* xml decoding into a struct whose XMLName is root: the document must be
\* well-formed and its root element must have that name
Decodes(doc, root) == doc.wellFormed /\ doc.root = root

NoFeedParsed == [err |-> TRUE, Title |-> "", Link |-> <<>>, FeedType |-> ""]

\* the Feed a parser returns: title as it stands, link cleaned up
FeedOf(doc) ==
    [err |-> FALSE, Title |-> doc.title, Link |-> TrimSpace(TrimSuffix(doc.link)),
     FeedType |-> ""]

parseRSSFeedContent(doc) == IF Decodes(doc, "rss") THEN FeedOf(doc) ELSE NoFeedParsed

parseAtomFeed(doc) == IF Decodes(doc, "feed") THEN FeedOf(doc) ELSE NoFeedParsed

parseRDFFeed(doc) == IF Decodes(doc, "RDF") THEN FeedOf(doc) ELSE NoFeedParsed

\* FetchFeed after the fetch: RSS, then Atom, then RDF
FetchFeedParse(doc) ==
    IF ~parseRSSFeedContent(doc).err
    THEN [parseRSSFeedContent(doc) EXCEPT !.FeedType = "RSS"]
    ELSE IF ~parseAtomFeed(doc).err
    THEN [parseAtomFeed(doc) EXCEPT !.FeedType = "Atom"]
    ELSE IF ~parseRDFFeed(doc).err
    THEN [parseRDFFeed(doc) EXCEPT !.FeedType = "RDF"]
    ELSE NoFeedParsed

\* extractFeedTitle: RSS with a title, then Atom with a title, else an error
extractFeedTitle(doc) ==
    IF Decodes(doc, "rss") /\ doc.title # ""
    THEN [err |-> FALSE, title |-> TrimSpaceTitle(doc.title)]
    ELSE IF Decodes(doc, "feed") /\ doc.title # ""
    THEN [err |-> FALSE, title |-> TrimSpaceTitle(doc.title)]
    ELSE [err |-> TRUE, title |-> ""]

----------------------------------------------------------------------------
\* internal/feeds: DiscoverFeedWithDebug, one call, candidate by candidate

\* the feed URLs findFeedLinks can return; it does not remove duplicates
CandidateLists == UNION {[1..n -> {"f1", "f2"}] : n \in 0..MaxCandidates}

\* the documents a candidate URL can hold
CandidateDocuments == {doc \in FeedDocuments : doc.link = <<>>}

\* what a candidate gives: FetchPage fails, extractFeedTitle fails, or
\* extractFeedTitle returns a title
CandidateAnswer(fetched, doc) ==
    IF ~fetched THEN "fetch failed"
    ELSE IF extractFeedTitle(doc).err THEN "no title"
    ELSE "feed"

DiscoverInit ==
    /\ CacheInit /\ diskFile = Missing
    /\ ExportIdle
    /\ ImportIdle
    /\ LockIdle
    /\ RssIdle
    /\ RunIdle
    /\ FetchIdle
    /\ ExtraIdle
    /\ dPc = "start"
    /\ feedURLs = <<>>
    /\ dIndex = 0
    /\ fetchLog = <<>>
    /\ dResult = NewResult

discoverFrame == <<cacheVars, exportVars, importVars, lockVars, rssVars, runVars, fetchVars,
                   extraVars>>

\* FetchPage(pageURL), then findFeedLinks on what it returned
discoverFetchPage ==
    /\ dPc = "start"
    /\ \/ /\ dResult' = [dResult EXCEPT !.Error = [msg |-> "failed to fetch page", n |-> 0]]
          /\ dPc' = "done"
          /\ UNCHANGED feedURLs
       \/ \E links \in CandidateLists :
             /\ feedURLs' = links
             /\ IF Len(links) = 0
                THEN /\ dResult' = [dResult EXCEPT
                                       !.Error = [msg |-> "no feed links found in page", n |-> 0]]
                     /\ dPc' = "done"
                ELSE /\ dPc' = "loop"
                     /\ UNCHANGED dResult
    /\ UNCHANGED <<discoverFrame, dIndex, fetchLog>>

\* one turn of the loop over feedURLs, going on after a candidate that is a feed
discoverTryCandidate_KeepGoing ==
    /\ dPc = "loop" /\ dIndex < Len(feedURLs)
    /\ \E fetched \in BOOLEAN, doc \in CandidateDocuments :
          LET answer == CandidateAnswer(fetched, doc)
          IN  /\ fetchLog' = Append(fetchLog, [index |-> dIndex + 1,
                                               url |-> feedURLs[dIndex + 1],
                                               answer |-> answer])
              /\ dResult' = IF answer = "feed"
                            THEN [dResult EXCEPT !.FeedURL = feedURLs[dIndex + 1],
                                                 !.FeedTitle = extractFeedTitle(doc).title]
                            ELSE dResult
              /\ dIndex' = dIndex + 1
              /\ dPc' = IF dIndex + 1 = Len(feedURLs) /\ dResult'.FeedURL # ""
                        THEN "done" ELSE "loop"
    /\ UNCHANGED <<discoverFrame, feedURLs>>

\* one turn of the loop over feedURLs: FetchPage(feedURL), extractFeedTitle
discoverTryCandidate ==
    /\ dPc = "loop" /\ dIndex < Len(feedURLs)
    /\ \E fetched \in BOOLEAN, doc \in CandidateDocuments :
          LET answer == CandidateAnswer(fetched, doc)
          IN  /\ fetchLog' = Append(fetchLog, [index |-> dIndex + 1,
                                               url |-> feedURLs[dIndex + 1],
                                               answer |-> answer])
              /\ IF answer = "feed"
                 THEN /\ dResult' = [dResult EXCEPT
                                        !.FeedURL = feedURLs[dIndex + 1],
                                        !.FeedTitle = extractFeedTitle(doc).title]
                      /\ dPc' = "done"
                      /\ UNCHANGED dIndex
                 ELSE /\ dIndex' = dIndex + 1
                      /\ UNCHANGED <<dResult, dPc>>
    /\ UNCHANGED <<discoverFrame, feedURLs>>

\* the loop ended without a feed
discoverNoneValid ==
    /\ dPc = "loop" /\ dIndex = Len(feedURLs)
    /\ dResult' = [dResult EXCEPT
                      !.Error = [msg |-> "found potential feed URLs but none were valid feeds",
                                 n |-> Len(feedURLs)]]
    /\ dPc' = "done"
    /\ UNCHANGED <<discoverFrame, feedURLs, dIndex, fetchLog>>

DiscoverNext ==
    \/ discoverFetchPage
    \/ discoverTryCandidate
    \/ discoverNoneValid

DiscoverSpec == DiscoverInit /\ [][DiscoverNext]_vars

----------------------------------------------------------------------------
\* internal/feeds: parseRSSFeed on an RSS document, token by token

StartElement(name) == [t |-> "start", name |-> name, text |-> ""]

EndElement(name) == [t |-> "end", name |-> name, text |-> ""]

CharData(text) == [t |-> "text", name |-> "", text |-> text]

\* <name>text</name>, or <name></name>
TextElement(name, text) ==
    <<StartElement(name)>> \o (IF text = "" THEN <<>> ELSE <<CharData(text)>>)
        \o <<EndElement(name)>>

\* <name><link>text</link></name>
ElementWithLink(name, text) ==
    <<StartElement(name)>> \o TextElement("link", text) \o <<EndElement(name)>>

\* the children a channel is made of: a link of its own (empty, blank, or with
\* one of two URLs, with or without a trailing slash), an item, an image and a
\* textInput with their own links, a title
NodeKinds ==
    {"link:", "link: ", "link:c", "link:c/", "link:d", "item", "image", "textInput", "title"}

NodeTokens(kind) ==
    CASE kind = "link:" -> TextElement("link", "")
      [] kind = "link: " -> TextElement("link", " ")
      [] kind = "link:c" -> TextElement("link", "c")
      [] kind = "link:c/" -> TextElement("link", "c/")
      [] kind = "link:d" -> TextElement("link", "d")
      [] kind = "item" -> ElementWithLink("item", "i")
      [] kind = "image" -> ElementWithLink("image", "g")
      [] kind = "textInput" -> ElementWithLink("textInput", "o")
      [] OTHER -> TextElement("title", "t")

RECURSIVE ChildTokens(_)
ChildTokens(children) ==
    IF children = <<>> THEN <<>>
    ELSE NodeTokens(Head(children)) \o ChildTokens(Tail(children))

\* <rss><channel>children</channel>[<item><link>i</link></item>]</rss>: the document as
\* xml.Decoder.Token returns it
DocTokens(doc) ==
    <<StartElement("rss"), StartElement("channel")>> \o ChildTokens(doc.children)
        \o <<EndElement("channel")>>
        \o (IF doc.itemAfterChannel THEN ElementWithLink("item", "i") ELSE <<>>)
        \o <<EndElement("rss")>>

RssDocuments == [children : UNION {[1..n -> NodeKinds] : n \in 0..MaxNodes},
                 itemAfterChannel : BOOLEAN]

\* decoder.Decode(&rss): Channel.Link is the text of the last <link> child of the channel
RECURSIVE UnmarshalChannelLink(_, _)
UnmarshalChannelLink(children, link) ==
    IF children = <<>> THEN link
    ELSE UnmarshalChannelLink(Tail(children),
            CASE Head(children) = "link:" -> ""
              [] Head(children) = "link: " -> " "
              [] Head(children) = "link:c" -> "c"
              [] Head(children) = "link:c/" -> "c/"
              [] Head(children) = "link:d" -> "d"
              [] OTHER -> link)

\* the position of the end element that closes the element opened before pos
RECURSIVE MatchingEnd(_, _, _)
MatchingEnd(tokens, pos, open) ==
    IF pos > Len(tokens) THEN Len(tokens)
    ELSE IF tokens[pos].t = "start" THEN MatchingEnd(tokens, pos + 1, open + 1)
    ELSE IF tokens[pos].t = "end"
    THEN IF open = 1 THEN pos ELSE MatchingEnd(tokens, pos + 1, open - 1)
    ELSE MatchingEnd(tokens, pos + 1, open)

\* decoder.DecodeElement(&linkText, &se): the character data of the element
RECURSIVE ElementText(_, _, _)
ElementText(tokens, pos, last) ==
    IF pos >= last THEN ""
    ELSE IF tokens[pos].t = "text" THEN tokens[pos].text
    ELSE ElementText(tokens, pos + 1, last)

\* a scan that does not skip the elements it should
SkippedInChannel_Nothing(name) == FALSE

\* case "image", "item": decoder.Skip() when inside the channel
SkippedInChannel(name) == name \in {"image", "item"}

\* the token loop: the link it leaves in feed.Link
RECURSIVE ScanForLink(_, _, _, _, _)
ScanForLink(tokens, pos, inChannel, depth, link) ==
    IF pos > Len(tokens) THEN link
    ELSE LET tok == tokens[pos]
         IN  IF tok.t = "start"
             THEN IF tok.name = "channel"
                  THEN ScanForLink(tokens, pos + 1, TRUE, 1, link)
                  ELSE IF tok.name \in {"image", "item"}
                  THEN IF inChannel /\ SkippedInChannel(tok.name)
                       THEN ScanForLink(tokens, MatchingEnd(tokens, pos + 1, 1) + 1,
                                        inChannel, depth, link)
                       ELSE ScanForLink(tokens, pos + 1, inChannel, depth, link)
                  ELSE IF tok.name = "link"
                  THEN IF inChannel /\ depth = 1
                       THEN LET last == MatchingEnd(tokens, pos + 1, 1)
                                linkText == ElementText(tokens, pos + 1, last)
                            IN  ScanForLink(tokens, last + 1, inChannel, depth,
                                            IF linkText # "" THEN linkText ELSE link)
                       ELSE ScanForLink(tokens, pos + 1, inChannel, depth, link)
                  ELSE ScanForLink(tokens, pos + 1, inChannel,
                                   IF inChannel THEN depth + 1 ELSE depth, link)
             ELSE IF tok.t = "end"
             THEN IF tok.name = "channel"
                  THEN ScanForLink(tokens, pos + 1, FALSE, 0, link)
                  ELSE ScanForLink(tokens, pos + 1, inChannel,
                                   IF inChannel THEN depth - 1 ELSE depth, link)
             ELSE ScanForLink(tokens, pos + 1, inChannel, depth, link)

\* strings.TrimSpace(strings.TrimSuffix(link, "/"))
CleanLink(link) ==
    CASE link = "c/" -> "c"
      [] link = " " -> ""
      [] OTHER -> link

\* the Link of the Feed that parseRSSFeed returns for the document
parseRSSFeedLink(doc) ==
    LET channelLink == UnmarshalChannelLink(doc.children, "")
    IN  CleanLink(IF channelLink = ""
                  THEN ScanForLink(DocTokens(doc), 1, FALSE, 0, "")
                  ELSE channelLink)

RssInit ==
    /\ CacheInit /\ diskFile = Missing
    /\ ExportIdle
    /\ ImportIdle
    /\ LockIdle
    /\ DiscoverIdle
    /\ RunIdle
    /\ FetchIdle
    /\ ExtraIdle
    /\ rssDoc \in RssDocuments
    /\ rssFeed = NoFeed

parseRSSFeed ==
    /\ ~rssFeed.parsed
    /\ rssFeed' = [parsed |-> TRUE, Link |-> parseRSSFeedLink(rssDoc)]
    /\ UNCHANGED <<cacheVars, exportVars, importVars, lockVars, discoverVars, runVars, fetchVars, extraVars,
                   rssDoc>>

RssNext == parseRSSFeed

RssSpec == RssInit /\ [][RssNext]_vars

----------------------------------------------------------------------------
\* internal/feeds: HTTPClient.FetchPage on the response it receives

\* one byte of plain text
Byte(ch) == [k |-> "lit", c |-> ch, n |-> 1]

\* the bytes of a compressed stream: the gzip header, a run of n equal bytes, and
\* the trailer with the size of the plain text
Magic == [k |-> "magic", c |-> "", n |-> 0]

Run(ch, n) == [k |-> "run", c |-> ch, n |-> n]

Size(n) == [k |-> "size", c |-> "", n |-> n]

Contents == UNION {[1..n -> {Byte("a"), Byte("b")}] : n \in 0..MaxContent}

\* the length of the run of equal bytes the text starts with
RunLength(text) ==
    CHOOSE n \in 1..Len(text) :
        /\ \A k \in 1..n : text[k] = text[1]
        /\ n = Len(text) \/ text[n + 1] # text[1]

\* the compressed stream of a text, run by run
RECURSIVE Deflate(_)
Deflate(text) ==
    IF text = <<>> THEN <<>>
    ELSE <<Run(text[1].c, RunLength(text))>>
            \o Deflate(SubSeq(text, RunLength(text) + 1, Len(text)))

\* what a server sends for a text under Content-Encoding: gzip
Gzip(text) == <<Magic>> \o Deflate(text) \o <<Size(Len(text))>>

\* the text of a compressed stream
RECURSIVE Inflate(_)
Inflate(stream) ==
    IF stream = <<>> THEN <<>>
    ELSE [k \in 1..Head(stream).n |-> Byte(Head(stream).c)] \o Inflate(Tail(stream))

\* gzip.NewReader succeeds: the body starts with a gzip header
GzipHeaderOk(body) == Len(body) >= 1 /\ body[1] = Magic

\* io.ReadAll(gzipReader) succeeds: runs up to a trailer that carries their size
GzipBodyOk(body) ==
    /\ Len(body) >= 2
    /\ body[Len(body)].k = "size"
    /\ \A k \in 2..(Len(body) - 1) : body[k].k = "run"
    /\ Len(Inflate(SubSeq(body, 2, Len(body) - 1))) = body[Len(body)].n

\* the values of the Content-Encoding header
Encodings == {"", "gzip", "x-gzip", "deflate"}

\* a FetchPage that never decompresses
ContainsGzip_Never(contentEncoding) == FALSE

\* strings.Contains(contentEncoding, "gzip")
ContainsGzip(contentEncoding) == contentEncoding \in {"gzip", "x-gzip"}

\* http.StatusOK
StatusOK == 200

\* FetchPage from the response on: the text and the error it returns
FetchPage(response) ==
    IF response.StatusCode # StatusOK
    THEN [text |-> <<>>, err |-> "HTTP request failed with status"]
    ELSE IF ContainsGzip(response.ContentEncoding)
    THEN IF ~GzipHeaderOk(response.Body)
         THEN [text |-> <<>>, err |-> "failed to create gzip reader"]
         ELSE IF ~GzipBodyOk(response.Body)
         THEN [text |-> <<>>, err |-> "failed to read response body"]
         ELSE [text |-> Inflate(SubSeq(response.Body, 2, Len(response.Body) - 1)),
               err |-> ""]
    ELSE [text |-> response.Body, err |-> ""]

\* what a server can put in the body for a text
Bodies(text) ==
    {text, Gzip(text), Deflate(text), SubSeq(Gzip(text), 1, Len(Gzip(text)) - 1)}

FetchInit ==
    /\ CacheInit /\ diskFile = Missing
    /\ ExportIdle
    /\ ImportIdle
    /\ LockIdle
    /\ DiscoverIdle
    /\ RssIdle
    /\ RunIdle
    /\ ExtraIdle
    /\ pageContent \in Contents
    /\ \E status \in {StatusOK, 404}, encoding \in Encodings,
          body \in Bodies(pageContent) :
            resp = [StatusCode |-> status, ContentEncoding |-> encoding, Body |-> body]
    /\ fetchResult = NoFetch

fetchPage ==
    /\ ~fetchResult.done
    /\ fetchResult' = [done |-> TRUE, text |-> FetchPage(resp).text,
                       err |-> FetchPage(resp).err]
    /\ UNCHANGED <<cacheVars, exportVars, importVars, lockVars, discoverVars, rssVars,
                   runVars, extraVars, pageContent, resp>>

FetchNext == fetchPage

FetchSpec == FetchInit /\ [][FetchNext]_vars

----------------------------------------------------------------------------
\* internal/importer: retryOperation, call by call

\* L << n (mod 2^64)
RECURSIVE ShiftLeft(_, _)
ShiftLeft(L, n) == IF n = 0 THEN L ELSE ShiftLeft(MulSmall(L, 2), n - 1)

\* d * time.Second (mod 2^64): time.Second = 31250 * 32000 ns
TimesSecond(d) == MulSmall(MulSmall(d, 31250), 32000)

\* a backoff of one second after every failed attempt
backoffDuration_Constant(n) == TimesSecond(ToLimbs(1))

\* time.Duration(1<<uint(attempt-1)) * time.Second, as an int64
backoffDuration(n) == TimesSecond(ShiftLeft(ToLimbs(1), n - 1))

\* what the operation can return
OperationAnswers == {"nil", "err"}

RetryInit ==
    /\ CacheInit /\ diskFile = Missing
    /\ ExportIdle
    /\ ImportIdle
    /\ LockIdle
    /\ DiscoverIdle
    /\ RssIdle
    /\ RunIdle
    /\ FetchIdle
    /\ FindIdle
    /\ LastIdle
    /\ maxAttempts \in 0..MaxAttempts
    /\ attempt = 1
    /\ retryPc = "loop"
    /\ retryLog = NoRetryLog

retryFrame == <<cacheVars, exportVars, importVars, lockVars, discoverVars, rssVars, runVars,
                fetchVars, findVars, lastVars, maxAttempts>>

\* for attempt <= maxAttempts: err := operation(), up to the sleep or the next turn
retryCall ==
    /\ retryPc = "loop" /\ attempt <= maxAttempts
    /\ \E err \in OperationAnswers :
         IF err = "nil"
         THEN /\ retryLog' = [retryLog EXCEPT !.calls = @ + 1, !.returned = "nil",
                                              !.lastCall = "nil"]
              /\ retryPc' = "returned"
              /\ UNCHANGED attempt
         ELSE /\ retryLog' = [retryLog EXCEPT !.calls = @ + 1, !.lastCall = "err"]
              /\ IF attempt < maxAttempts
                 THEN /\ retryPc' = "sleep"
                      /\ UNCHANGED attempt
                 ELSE /\ attempt' = attempt + 1
                      /\ UNCHANGED retryPc
    /\ UNCHANGED retryFrame

\* time.Sleep(backoffDuration); attempt++
retrySleep ==
    /\ retryPc = "sleep"
    /\ retryLog' = [retryLog EXCEPT !.sleeps = Append(@, backoffDuration(attempt))]
    /\ attempt' = attempt + 1
    /\ retryPc' = "loop"
    /\ UNCHANGED retryFrame

\* the loop is over: return fmt.Errorf("operation failed after %d attempts: %w", ...)
retryGiveUp ==
    /\ retryPc = "loop" /\ attempt > maxAttempts
    /\ retryLog' = [retryLog EXCEPT !.returned = "err"]
    /\ retryPc' = "returned"
    /\ UNCHANGED <<retryFrame, attempt>>

RetryNext ==
    \/ retryCall
    \/ retrySleep
    \/ retryGiveUp

RetrySpec == RetryInit /\ [][RetryNext]_vars

----------------------------------------------------------------------------
\* internal/feeds: findFeedLinks on a fetched page

\* the URLs a page can link to as feeds
PageLinks == {"https://a/blog.xml", "https://cdn/news.atom"}

LinkLists == UNION {[1..n -> PageLinks] : n \in 0..MaxLinks}

\* a page: whether html.Parse accepts it, the feed links the walk over its tree
\* collects, and the feed links the regular expressions match in its text
Pages ==
    {[parsed |-> TRUE, walk |-> w, regex |-> r] : w \in LinkLists, r \in LinkLists}
        \cup {[parsed |-> FALSE, walk |-> <<>>, regex |-> r] : r \in LinkLists}

\* url.Parse of the URL the page was fetched from
BaseURLs == {[Scheme |-> "https", Host |-> "a"], [Scheme |-> "http", Host |-> "b:8080"]}

commonPaths ==
    <<"/feed", "/feed.xml", "/rss", "/rss.xml", "/atom.xml", "/feeds/all.atom.xml",
      "/index.xml", "/.rss">>

\* base.Scheme + "://" + base.Host + path, as its three parts
tryCommonFeedPaths(base) ==
    [k \in 1..Len(commonPaths) |-> <<base.Scheme, "://" , base.Host, commonPaths[k]>>]

\* a link of the page as findFeedLinks returns it
Found(links) == [k \in 1..Len(links) |-> <<links[k]>>]

findFeedLinks(page, base) ==
    IF ~page.parsed THEN Found(page.regex)
    ELSE IF page.walk # <<>> THEN Found(page.walk)
    ELSE IF page.regex # <<>> THEN Found(page.regex)
    ELSE tryCommonFeedPaths(base)

FindInit ==
    /\ CacheInit /\ diskFile = Missing
    /\ ExportIdle
    /\ ImportIdle
    /\ LockIdle
    /\ DiscoverIdle
    /\ RssIdle
    /\ RunIdle
    /\ FetchIdle
    /\ RetryIdle
    /\ LastIdle
    /\ htmlContent \in Pages
    /\ baseURL \in BaseURLs
    /\ foundLinks = NotCalled

callFindFeedLinks ==
    /\ ~foundLinks.returned
    /\ foundLinks' = [returned |-> TRUE, feedURLs |-> findFeedLinks(htmlContent, baseURL)]
    /\ UNCHANGED <<cacheVars, exportVars, importVars, lockVars, discoverVars, rssVars,
                   runVars, fetchVars, retryVars, lastVars, htmlContent, baseURL>>

FindNext == callFindFeedLinks

FindSpec == FindInit /\ [][FindNext]_vars

----------------------------------------------------------------------------
\* internal/feeds: FetchFeed and extractFeedTitle on the same fetched document

FeedInit ==
    /\ CacheInit /\ diskFile = Missing
    /\ ExportIdle
    /\ ImportIdle
    /\ LockIdle
    /\ DiscoverIdle
    /\ RssIdle
    /\ RunIdle
    /\ FetchIdle
    /\ RetryIdle
    /\ FindIdle
    /\ RedirectIdle
    /\ feedContent \in FeedDocuments
    /\ feedResult = NotParsed
    /\ titleResult = NotExtracted

feedFrame == <<cacheVars, exportVars, importVars, lockVars, discoverVars, rssVars,
               runVars, fetchVars, retryVars, findVars, redirectVars, feedContent>>

\* FetchFeed, from the content FetchPage returned
fetchFeedParse ==
    /\ ~feedResult.returned
    /\ feedResult' = [returned |-> TRUE, feed |-> FetchFeedParse(feedContent)]
    /\ UNCHANGED <<feedFrame, titleResult>>

\* extractFeedTitle(feedContent)
callExtractFeedTitle ==
    /\ ~titleResult.returned
    /\ titleResult' = [returned |-> TRUE, res |-> extractFeedTitle(feedContent)]
    /\ UNCHANGED <<feedFrame, feedResult>>

FeedNext ==
    \/ fetchFeedParse
    \/ callExtractFeedTitle

FeedSpec == FeedInit /\ [][FeedNext]_vars

----------------------------------------------------------------------------
\* internal/feeds: the redirect policy of NewHTTPClient during one request

RedirectInit ==
    /\ CacheInit /\ diskFile = Missing
    /\ ExportIdle
    /\ ImportIdle
    /\ LockIdle
    /\ DiscoverIdle
    /\ RssIdle
    /\ RunIdle
    /\ FetchIdle
    /\ RetryIdle
    /\ FindIdle
    /\ FeedIdle
    /\ maxRedirects \in 0..MaxRedirectLimit
    /\ chain \in 0..MaxChain
    /\ via = 1
    /\ doResult = "none"

redirectFrame == <<cacheVars, exportVars, importVars, lockVars, discoverVars, rssVars,
                   runVars, fetchVars, retryVars, findVars, feedVars, maxRedirects, chain>>

\* if len(via) >= config.MaxRedirects { return fmt.Errorf(...) }; return nil
redirectPolicy(lenVia, max) == IF lenVia >= max THEN "error" ELSE "nil"

\* the response to the request is a redirect: the client asks the policy, with
\* the requests made so far in via, and follows the redirect if it allows
followRedirect ==
    /\ doResult = "none"
    /\ via <= chain
    /\ IF redirectPolicy(via, maxRedirects) = "nil"
       THEN /\ via' = via + 1
            /\ UNCHANGED doResult
       ELSE /\ doResult' = "error"
            /\ UNCHANGED via
    /\ UNCHANGED redirectFrame

\* the response to the request is not a redirect: client.Do returns it
finalResponse ==
    /\ doResult = "none"
    /\ via > chain
    /\ doResult' = "response"
    /\ UNCHANGED <<redirectFrame, via>>

RedirectNext ==
    \/ followRedirect
    \/ finalResponse

RedirectSpec == RedirectInit /\ [][RedirectNext]_vars

----------------------------------------------------------------------------
\* Properties of the cache

\* a Get of key k has just returned, and the last write was a Set of k less
\* than an hour ago
GetRightAfterSet ==
    /\ lastGet.valid
    /\ lastOp.op = "Set"
    /\ lastOp.key = lastGet.key
    /\ now.h = lastOp.at.h

GetReturnedWritten ==
    /\ lastGet.res.present
    /\ lastGet.res.FeedURL = lastOp.FeedURL
    /\ lastGet.res.FeedTitle = lastOp.FeedTitle

C7_NilIffAbsentOrOlder ==
    lastGet.valid =>
        (~lastGet.res.present <=>
            \/ ~entries[lastGet.key].present
            \/ AgeExceeds(entries[lastGet.key].Timestamp, now, lastGet.maxAge))

\* C9: LoadCache on a fresh cache returns no error, and after a missing,
\* unreadable or undecodable file the in-memory cache is empty.
C9_LoadNeverFails ==
    lastOp.op = "LoadCache" =>
        /\ loadResult = "nil"
        /\ lastOp.file.kind \in {"missing", "unreadable", "corrupt"}
              => entries = EmptyEntries

\* C9 witness: LoadCache has read a file whose decoding failed after an entry
\* had been decoded
C9_Witness ==
    /\ lastOp.op = "LoadCache"
    /\ lastOp.file.kind = "corrupt"
    /\ lastOp.file.data["u1"].present
    /\ loadResult = "nil"

\* C10: from the entry of SaveCache on, the file at the cache path is the
\* previous file or the complete new snapshot, and it is the previous file
\* whenever SaveCache returns an error.
C10_SaveReplacesAtomically ==
    savePc # "idle" =>
        /\ diskFile \in {savePrev, Valid(entries)}
        /\ saveResult = "err" => diskFile = savePrev
        /\ saveResult = "nil" => diskFile = Valid(entries)

\* C10 witness: SaveCache has returned an error after the temporary file was
\* created, with a snapshot to write that differs from the one on disk
C10_Witness ==
    /\ savePc = "returned"
    /\ saveResult = "err"
    /\ tempFile = Missing
    /\ savePrev.kind = "valid"
    /\ savePrev.data["u1"].present
    /\ savePrev # Valid(entries)

----------------------------------------------------------------------------
\* Properties of ProcessBookmarks

\* the cache as ProcessBookmarks found it
LoadedEntries == IF savePc = "idle" THEN diskFile.data ELSE savePrev.data

\* the cache held an entry for the URL, not older than MaxAge, when the run began
LoadedFresh(url) ==
    /\ LoadedEntries[url].present
    /\ ~AgeExceeds(LoadedEntries[url].Timestamp, ZeroTime, pConfig.MaxAge)

\* C2 (export): when ProcessBookmarks returns every bookmark has its result,
\* and a bookmark has the outcome it would have had without the bookmarks whose
\* discovery failed: the cached outcome when the cache answered for its URL at
\* the start, and a success when the cache did not and a discovery for it
\* succeeds.
C2_FailureLeavesOthersAlone ==
    pMain = "done" =>
        \A i \in 1..Len(bookmarks) :
            /\ pHist[i].done
            /\ LoadedFresh(bookmarks[i])
                  => (pHist[i].ok <=> HasFeed(LoadedEntries[bookmarks[i]]))
            /\ (~LoadedFresh(bookmarks[i]) /\ pHist[i].net = "ok") => pHist[i].ok

\* C4: after ProcessBookmarks returns, CacheHits + NewDiscoveries equals
\* TotalBookmarks: no increment of a counter is lost.
C4_NoLostIncrement ==
    pMain = "done" =>
        pStats.CacheHits + pStats.NewDiscoveries = pStats.TotalBookmarks

\* C5: SaveCache is entered at most once, only when every worker has left its
\* loop (so no Set or SetFailed can follow or overlap it), and exactly once by
\* the time ProcessBookmarks returns.
C5_SaveOnceAfterWorkers ==
    /\ saveCount <= 1
    /\ saveCount = 1 => \A w \in Workers : pWorker[w].pc \in {"off", "exited"}
    /\ pMain = "done" => saveCount = 1

\* C5 witness: ProcessBookmarks has returned after two workers shared two
\* bookmarks and at least one of them wrote to the cache
C5_Witness ==
    /\ pMain = "done"
    /\ saveCount = 1
    /\ pConfig.Concurrency = 2
    /\ Len(bookmarks) = 2
    /\ \E i \in 1..Len(bookmarks) : pHist[i].writes = 1

\* C8: a bookmark whose URL has a fresh entry with an empty feed URL is served
\* as a cache hit: Get returned the entry, CacheHits is the counter that is
\* incremented, nothing is fetched, nothing is written to the cache and the
\* result is a failure; a bookmark whose URL has no entry gets nil from Get and
\* goes through a new discovery.
C8_NegativeEntryIsHit ==
    \A i \in 1..Len(bookmarks) :
        /\ pHist[i].lookup = "negative" =>
              /\ pHist[i].fetches = 0 /\ pHist[i].writes = 0 /\ pHist[i].newIncs = 0
              /\ \A w \in Workers :
                    (pWorker[w].item = i /\ pWorker[w].pc # "get")
                        => pWorker[w].cached.present
              /\ pHist[i].done => (pHist[i].hitIncs = 1 /\ ~pHist[i].ok)
        /\ pHist[i].lookup = "absent" =>
              /\ pHist[i].hitIncs = 0
              /\ \A w \in Workers : pWorker[w].item = i => ~pWorker[w].cached.present
              /\ pHist[i].done =>
                    (pHist[i].newIncs = 1 /\ pHist[i].fetches = 1 /\ pHist[i].writes = 1)

\* C8 witness: one bookmark was served from a negative entry and another went
\* through a new discovery because its URL had no entry
C8_Witness ==
    \E i, j \in 1..Len(bookmarks) :
        /\ pHist[i].lookup = "negative" /\ pHist[i].done
        /\ pHist[j].lookup = "absent" /\ pHist[j].done

----------------------------------------------------------------------------
\* Properties of ProcessItems

ImportDone == iMain = "done"

\* C1: for any list of N >= 0 items, any concurrency >= 1 and any RetryAttempts,
\* ProcessItems terminates; by then every item has been received by a worker
\* exactly once and stats.Processed = stats.Total = N. No item is ever received
\* twice, and no two workers ever hold the same item.
C1_ProcessItemsTerminates ==
    /\ <>ImportDone
    /\ [](\A i \in 1..Len(items) : iHist[i].recv <= 1)
    /\ [](\A w1, w2 \in ImportWorkers :
             (w1 # w2 /\ iWorker[w1].item # 0) => iWorker[w1].item # iWorker[w2].item)
    /\ [](ImportDone => /\ \A i \in 1..Len(items) : iHist[i].recv = 1
                        /\ stats.Processed = Len(items)
                        /\ stats.Total = Len(items))

\* C1 witness: ProcessItems has returned after its workers shared MaxItems items,
\* one of which failed and one of which was imported
C1_Witness ==
    /\ ImportDone
    /\ Len(items) = MaxItems /\ concurrency = MaxImportPool
    /\ \E i, j \in 1..Len(items) : /\ items[i].Status = "StatusFailed"
                                   /\ items[j].Status = "StatusSuccess"
    /\ stats.Processed = MaxItems

\* C3: outside dry-run, in every call of ProcessBookmark: when GetBookmarkByURL
\* found a bookmark and the duplicate action is skip, neither CreateBookmark nor
\* UpdateBookmark is called and the item ends Skipped; when it found one and the
\* action is update, UpdateBookmark is called once with the ID of the bookmark
\* found and CreateBookmark is not called; when it found none, CreateBookmark is
\* called once and UpdateBookmark is not called.
C3_DuplicateHandling ==
    ~options.DryRun =>
      \A i \in 1..Len(items) :
        LET h == iHist[i]
            returned == h.returned # "none"
        IN  /\ h.lookup = "found" /\ options.DuplicateAction = "skip" =>
                 /\ h.creates = 0 /\ h.updates = 0
                 /\ returned => h.returned = "nil" /\ items[i].Status = "StatusSkipped"
            /\ h.lookup = "found" /\ options.DuplicateAction = "update" =>
                 /\ h.creates = 0 /\ h.updates <= 1
                 /\ h.updates = 1 => h.updateID = h.existingID /\ h.updateID # 0
                 /\ returned => h.updates = 1
            /\ h.lookup = "missing" =>
                 /\ h.updates = 0 /\ h.creates <= 1
                 /\ returned => h.creates = 1

\* C3 witness: in one run with the update action, one item's bookmark was found and
\* updated and another item's bookmark was missing and created
C3_Witness ==
    /\ ~options.DryRun /\ options.DuplicateAction = "update"
    /\ \E i, j \in 1..Len(items) :
          /\ iHist[i].lookup = "found" /\ iHist[i].updates = 1 /\ iHist[i].returned = "nil"
          /\ iHist[j].lookup = "missing" /\ iHist[j].creates = 1 /\ iHist[j].returned = "nil"

----------------------------------------------------------------------------
\* Properties of the cache lock

InMethod(t) == caller[t].pc \in {"body", "unlock"}

\* C11: while a goroutine is inside Set, SetFailed or LoadCache (the methods that
\* write the entries map) no other goroutine is inside any method of the cache:
\* no Get, no SaveCache and no other write overlaps it. Only readers overlap
\* each other.
C11_WritesAreExclusive ==
    /\ \A t1, t2 \in Callers :
          (t1 # t2 /\ InMethod(t1) /\ WritesEntries(caller[t1].method)) => ~InMethod(t2)
    /\ mu.writer => mu.readers = 0
    /\ mu.readers = Cardinality({t \in Callers : InMethod(t) /\ ~WritesEntries(caller[t].method)})

\* C11 witness: two Get calls are inside the cache at the same time, after a Set
\* has written the entry they read
C11_Witness ==
    /\ \A t \in Callers : caller[t].method = "Get" /\ caller[t].pc = "unlock"
                            /\ caller[t].seen.present
    /\ mu.readers = MaxCallers

----------------------------------------------------------------------------
\* Properties of DiscoverBookmarkURL

\* C12: a call of DiscoverBookmarkURL returns an error exactly when the item's
\* XMLURL and HTMLURL are both empty; and when XMLURL is not empty and the feed
\* was fetched without giving a link (the fetch or the parse failed, or the link
\* is empty), no error is returned and the discovered URL is XMLURL.
C12_ErrorOnlyWithoutAnyURL ==
    \A i \in 1..Len(items) :
        iHist[i].discovered # "none" =>
            /\ iHist[i].discovered = "err" <=> (items[i].XMLURL = "" /\ items[i].HTMLURL = "")
            /\ (items[i].XMLURL # "" /\ iHist[i].feed \in {"err", "nolink"}) =>
                  /\ iHist[i].discovered = "nil"
                  /\ items[i].DiscoveredURL = items[i].XMLURL

\* C12 witness: the feed of an item with a feed URL and no page hint could not be
\* fetched, and the item's discovered URL is its feed URL
C12_Witness ==
    \E i \in 1..Len(items) :
        /\ items[i].XMLURL = "x1" /\ items[i].HTMLURL = ""
        /\ iHist[i].feed = "err" /\ iHist[i].discovered = "nil"
        /\ items[i].DiscoveredURL = "x1"

\* C13: a call of DiscoverBookmarkURL for an item whose HTMLURL is not empty and
\* differs from its XMLURL makes no fetch, returns no error and sets the
\* discovered URL to HTMLURL.
C13_HintUsedWithoutFetch ==
    \A i \in 1..Len(items) :
        (iHist[i].discovered # "none" /\ items[i].HTMLURL # ""
            /\ items[i].HTMLURL # items[i].XMLURL) =>
                /\ iHist[i].fetches = 0 /\ iHist[i].feed = "unused"
                /\ iHist[i].discovered = "nil"
                /\ items[i].DiscoveredURL = items[i].HTMLURL

\* C13 witness: discovery has returned for an item with a page hint and a
\* different, non-empty feed URL
C13_Witness ==
    \E i \in 1..Len(items) :
        /\ items[i].HTMLURL = "h1" /\ items[i].XMLURL = "x1"
        /\ iHist[i].discovered = "nil" /\ iHist[i].fetches = 0
        /\ items[i].DiscoveredURL = "h1"

----------------------------------------------------------------------------
\* Properties of DiscoverFeedWithDebug

FetchesInListOrder ==
    /\ Len(fetchLog) <= Len(feedURLs)
    /\ \A k \in 1..Len(fetchLog) :
          /\ fetchLog[k].index = k
          /\ fetchLog[k].url = feedURLs[k]
          /\ k < Len(fetchLog) => fetchLog[k].answer # "feed"

\* C14: the candidates are fetched in list order, each at most once, and a fetch
\* is followed by another only when the candidate failed. When the call returns
\* a feed, it is the last candidate fetched, that fetch succeeded and its title
\* was extracted, and no later candidate was fetched. When the call returns
\* after every candidate failed, each candidate was fetched exactly once and the
\* error states the number of candidates.
C14_FirstValidCandidateWins ==
    /\ FetchesInListOrder
    /\ (dPc = "done" /\ dResult.FeedURL # "") =>
          /\ fetchLog # <<>>
          /\ fetchLog[Len(fetchLog)].answer = "feed"
          /\ dResult.FeedURL = feedURLs[Len(fetchLog)]
          /\ dResult.Error = NoError
    /\ (dPc = "done" /\ dResult.FeedURL = "" /\ feedURLs # <<>>) =>
          /\ Len(fetchLog) = Len(feedURLs)
          /\ \A k \in 1..Len(fetchLog) : fetchLog[k].answer # "feed"
          /\ dResult.Error.n = Len(feedURLs)
          /\ dResult.Error.msg = "found potential feed URLs but none were valid feeds"

\* C14 witness: of MaxCandidates candidates the first failed, the second is the
\* feed returned and the last one was not fetched
C14_Witness ==
    /\ dPc = "done"
    /\ Len(feedURLs) = MaxCandidates
    /\ Len(fetchLog) = 2
    /\ dResult.FeedURL = feedURLs[2]

----------------------------------------------------------------------------
\* Properties of parseRSSFeed

\* the channel has no link of its own with text in it
NoChannelLink(doc) ==
    \A k \in 1..Len(doc.children) : doc.children[k] \in {"link:", "item", "image", "textInput", "title"}

\* C15: for an RSS document whose channel has no non-empty link of its own, the
\* link parseRSSFeed returns is never the link of an <item> or of an <image>,
\* wherever the items stand and whatever else the channel holds; it is empty or
\* the link of another element of the channel.
C15_NoItemOrImageLink ==
    (rssFeed.parsed /\ NoChannelLink(rssDoc)) => rssFeed.Link \in {"", "o"}

\* C15 witness: a document whose channel has an empty link, an item with a link
\* and an image with a link has been parsed, and the link returned is empty
C15_Witness ==
    /\ rssFeed.parsed
    /\ rssDoc.children = <<"link:", "item", "image">>
    /\ rssFeed.Link = ""

----------------------------------------------------------------------------
\* Properties of a dry run

\* what holds in every state of a dry run
DryRunState ==
    options.DryRun =>
        /\ \A i \in 1..Len(items) :
              /\ iHist[i].lookup \in {"none", "simulated"}
              /\ iHist[i].creates = 0 /\ iHist[i].updates = 0
              /\ (iHist[i].returned # "none" /\ GetFinalURL(items[i]) # "") =>
                    /\ iHist[i].returned = "nil"
                    /\ items[i].Status = "StatusSuccess"
                    /\ ~items[i].WasUpdated
        /\ \A w \in ImportWorkers : iWorker[w].existing = 0
        /\ stats.Updated = 0 /\ stats.Skipped = 0

----------------------------------------------------------------------------
\* Properties of the end of a run

\* C17: when an export finishes with a non-zero count of failed discoveries,
\* runExport returns an error (and the feeds that were discovered are in the
\* output all the same).
C17_FailedRunReturnsError ==
    (runResult.returned # "none" /\ pStats.FailedDiscoveries > 0) =>
        runResult.returned = "err"

----------------------------------------------------------------------------
\* Properties of the results of ProcessBookmarks

\* what holds once ProcessBookmarks has returned
ResultsOnReturn ==
    pMain = "done" =>
        /\ pStats.TotalBookmarks = Len(bookmarks)
        /\ pStats.SuccessfulFeeds + pStats.FailedDiscoveries = pStats.TotalBookmarks
        /\ Len(successful) = pStats.SuccessfulFeeds
        /\ \A k \in 1..Len(successful) : IsSuccessful(successful[k])
        /\ \A i \in 1..Len(bookmarks) :
              /\ pHist[i].done
              /\ Cardinality({k \in 1..Len(successful) : successful[k].item = i})
                    = IF pHist[i].ok THEN 1 ELSE 0
        /\ Len(GenerateOPML(successful)) = Len(successful)
        /\ \A k \in 1..Len(successful) :
              GenerateOPML(successful)[k] = Outline(successful[k])
        /\ runResult.file = "written" => runResult.output = GenerateOPML(successful)

\* C18: ProcessBookmarks returns, whatever the number of bookmarks and of workers,
\* and on return every bookmark has exactly one result: SuccessfulFeeds +
\* FailedDiscoveries = TotalBookmarks, the slice returned holds the successful
\* results and only them, each once, and the OPML body has one outline per
\* result of the slice, so none for a failed result.
C18_OneResultPerBookmark ==
    /\ <>(pMain = "done")
    /\ []ResultsOnReturn

\* C18 witness: ProcessBookmarks has returned for two bookmarks handled by two
\* workers, one discovery succeeded and the other failed, and the OPML file was
\* written with the one outline
C18_Witness ==
    /\ pMain = "done"
    /\ Len(bookmarks) = 2 /\ pConfig.Concurrency = 2
    /\ pStats.SuccessfulFeeds = 1 /\ pStats.FailedDiscoveries = 1
    /\ Len(successful) = 1
    /\ runResult.file = "written"
    /\ runResult.output = GenerateOPML(successful)

----------------------------------------------------------------------------
\* Properties of FetchPage

\* C19: for a 200 response with Content-Encoding gzip whose body is the gzip
\* stream of a text, FetchPage returns without error the text it returns for the
\* 200 response that carries the same text uncompressed, which is the text itself.
C19_GzipIsTransparent ==
    (/\ fetchResult.done
     /\ resp.StatusCode = StatusOK
     /\ resp.ContentEncoding = "gzip"
     /\ resp.Body = Gzip(pageContent)) =>
        /\ fetchResult.err = ""
        /\ fetchResult.text = FetchPage([StatusCode |-> StatusOK, ContentEncoding |-> "",
                                         Body |-> pageContent]).text
        /\ fetchResult.text = pageContent

\* C19 witness: a text with a run of equal bytes and another byte was sent
\* gzip-encoded with status 200 and FetchPage has returned it
C19_Witness ==
    /\ fetchResult.done
    /\ resp.StatusCode = StatusOK
    /\ resp.ContentEncoding = "gzip"
    /\ pageContent = <<Byte("a"), Byte("a"), Byte("b")>>
    /\ resp.Body = Gzip(pageContent)
    /\ resp.Body # pageContent
    /\ fetchResult.text = pageContent

----------------------------------------------------------------------------
\* Properties of concurrent creation

\* C20: in a ProcessItems that is not a dry run, CreateBookmark is never called
\* for a URL for which the service holds a bookmark when the call is made,
\* whatever the number of workers and even when two items have the same final URL.
C20_NoCreateOverExisting ==
    ~options.DryRun => \A i \in 1..Len(items) : iHist[i].createOver = 0

----------------------------------------------------------------------------
\* Properties of the import counters and of the items on return

\* the number of items with the given Status
CountStatus(status) == Cardinality({i \in 1..Len(items) : items[i].Status = status})

\* C21: when ProcessItems has returned, Imported + Updated + Skipped + Failed =
\* Processed = Total, Failed is the number of items with Status failed, Skipped
\* the number with Status skipped, Imported + Updated the number with Status
\* success, and no item is pending.
C21_CountersPartitionItems ==
    ImportDone =>
        /\ stats.Imported + stats.Updated + stats.Skipped + stats.Failed = stats.Processed
        /\ stats.Processed = stats.Total
        /\ stats.Total = Len(items)
        /\ CountStatus("StatusFailed") = stats.Failed
        /\ CountStatus("StatusSkipped") = stats.Skipped
        /\ CountStatus("StatusSuccess") = stats.Imported + stats.Updated
        /\ CountStatus("StatusPending") = 0

\* C21 witness: ProcessItems has returned for two items, one of which failed and
\* the other was imported or updated or skipped
C21_Witness ==
    /\ ImportDone
    /\ Len(items) = 2
    /\ stats.Failed = 1
    /\ stats.Imported + stats.Updated + stats.Skipped = 1

\* C22: when ProcessItems has returned, every item with Status success or skipped
\* has a nil Error, also when a create or an update failed on one attempt and a
\* later attempt succeeded.
C22_SuccessHasNoError ==
    ImportDone =>
        \A i \in 1..Len(items) :
            items[i].Status \in {"StatusSuccess", "StatusSkipped"} => items[i].Error = Nil

----------------------------------------------------------------------------
\* Properties of retries

\* C23: a network failure of the feed fetch in an item's URL discovery is retried
\* up to RetryAttempts times and, when the last fetch made for the item failed
\* too, the item ends failed with the error recorded on it.
C23_FetchFailureRetriedOrRecorded ==
    ImportDone =>
        \A i \in 1..Len(items) :
            (iHist[i].feed = "err" /\ options.RetryAttempts >= 1) =>
                /\ items[i].Status = "StatusFailed"
                /\ items[i].Error # Nil

----------------------------------------------------------------------------
\* Properties of retryOperation

\* the largest k for which 2^(k-1) seconds fit in an int64 of nanoseconds
MaxExactBackoff == 34

\* 2^(k-1) seconds in nanoseconds, computed without any wrap, on 12 limbs
ExactBackoff(k) == TimesSecond(ShiftLeft(ToLimbs(1) \o <<0, 0, 0, 0>>, k - 1))

\* the duration slept is 2^(k-1) seconds
IsExactBackoff(d, k) == ~IsNegative64(d) /\ d \o <<0, 0, 0, 0>> = ExactBackoff(k)

\* time.Sleep returns at once: the duration is negative or zero
NoWait(d) == IsNegative64(d) \/ d = ToLimbs(0)

\* the calls of retryOperation: at most maxAttempts, none after a success, and
\* one sleep after every failed attempt but the last
CallsAndSleeps ==
    /\ retryLog.calls <= maxAttempts
    /\ retryLog.returned = "nil" =>
          /\ retryLog.lastCall = "nil"
          /\ retryLog.calls = attempt
          /\ Len(retryLog.sleeps) = attempt - 1
    /\ retryLog.returned = "err" =>
          /\ retryLog.calls = maxAttempts
          /\ Len(retryLog.sleeps) = IF maxAttempts = 0 THEN 0 ELSE maxAttempts - 1
    /\ Len(retryLog.sleeps) <= retryLog.calls
    /\ Len(retryLog.sleeps) < maxAttempts \/ maxAttempts = 0

----------------------------------------------------------------------------
\* Properties of an item that exhausted its retries

\* the worker that received item i is done with it
Released(i) == iHist[i].recv = 1 /\ \A w \in ImportWorkers : iWorker[w].item # i

\* the error returned by the last attempt made for item i, by what that attempt did
LastAttemptError(i) ==
    IF iHist[i].discovered = "none" THEN Nil
    ELSE IF iHist[i].discovered = "err" THEN <<"no URL available for bookmark">>
    ELSE IF iHist[i].lookup = "error"
    THEN <<"failed to check for existing bookmark">> \o ApiError
    ELSE IF iHist[i].updates = 1 THEN <<"failed to update bookmark">> \o ApiError
    ELSE IF iHist[i].creates = 1 THEN <<"failed to create bookmark">> \o ApiError
    ELSE <<"no valid URL found for bookmark">>

\* C25: an item whose discovery or whose bookmark step has failed on every attempt
\* ends with Status failed and with the error of its last attempt, wrapped; Failed
\* and Processed count it once each (Failed is the number of such items, Processed
\* the number of items the workers are done with); and when the failing step is
\* the discovery, no call to the bookmark service was made for the item.
C25_ExhaustedRetriesFailItem ==
    /\ \A i \in 1..Len(items) :
          (Released(i) /\ (iHist[i].discovered # "nil" \/ iHist[i].returned = "err")) =>
              /\ items[i].Status = "StatusFailed"
              /\ items[i].Error = <<"operation failed after attempts">> \o LastAttemptError(i)
              /\ iHist[i].discovered # "nil" =>
                    /\ iHist[i].calls = 0 /\ iHist[i].lookup = "none"
                    /\ iHist[i].creates = 0 /\ iHist[i].updates = 0
    /\ stats.Failed = Cardinality({i \in 1..Len(items) :
                          Released(i) /\ items[i].Status = "StatusFailed"})
    /\ stats.Processed = Cardinality({i \in 1..Len(items) : Released(i)})
    /\ \A i \in 1..Len(items) :
          (Released(i) /\ items[i].Status = "StatusFailed") =>
              (iHist[i].discovered # "nil" \/ iHist[i].returned = "err")

\* C25 witness: with two attempts allowed, an item was discovered, CreateBookmark
\* failed on the last attempt, and the worker is done with the item
C25_Witness ==
    /\ options.RetryAttempts = 2
    /\ \E i \in 1..Len(items) :
          /\ Released(i)
          /\ iHist[i].discovered = "nil"
          /\ iHist[i].calls = 2 /\ iHist[i].creates = 1 /\ iHist[i].returned = "err"
          /\ items[i].Status = "StatusFailed"
          /\ stats.Failed >= 1

----------------------------------------------------------------------------
\* Properties of the cache entries written by processBookmark

\* the entry processBookmark stores for a result at time t
EntryFor(result, t) ==
    IF IsSuccessful(result)
    THEN [present |-> TRUE, FeedURL |-> result.FeedURL, FeedTitle |-> result.FeedTitle,
          Timestamp |-> t]
    ELSE [present |-> TRUE, FeedURL |-> "", FeedTitle |-> "", Timestamp |-> t]

\* processBookmark writes once on a miss and never on a hit
OneWritePerMiss ==
    \A i \in 1..Len(bookmarks) :
        pHist[i].done =>
            pHist[i].writes = IF pHist[i].lookup \in {"absent", "stale"} THEN 1 ELSE 0

\* an entry changes only when a discovery for its own URL ends, and becomes the
\* entry of that discovery's result
OnlyOwnEntryWritten ==
    [][\A k \in Keys :
         entries'[k] # entries[k] =>
             \E w \in Workers :
                 /\ pWorker[w].pc = "discover"
                 /\ pWorker'[w].pc = "send"
                 /\ bookmarks[pWorker[w].item] = k
                 /\ entries'[k] = EntryFor(pWorker'[w].result, now)]_vars

\* C26 as stated: on a miss processBookmark writes exactly one entry, for the
\* bookmark's own URL, positive or negative by the result, and leaves the other
\* keys alone; after ProcessBookmarks every input URL has a non-stale entry.
C26_EveryURLFreshOnReturn ==
    /\ []OneWritePerMiss
    /\ OnlyOwnEntryWritten
    /\ [](pMain = "done" =>
             \A i \in 1..Len(bookmarks) :
                 /\ entries[bookmarks[i]].present
                 /\ ~isStale(entries[bookmarks[i]], pConfig.MaxAge, now))

\* C26 amended: the same about the writes; after ProcessBookmarks every input URL
\* has an entry, which is non-stale if the clock has not advanced since the run
\* began.
C26_EveryURLCachedOnReturn ==
    /\ []OneWritePerMiss
    /\ OnlyOwnEntryWritten
    /\ [](pMain = "done" =>
             \A i \in 1..Len(bookmarks) :
                 /\ entries[bookmarks[i]].present
                 /\ now = ZeroTime =>
                       ~isStale(entries[bookmarks[i]], pConfig.MaxAge, now))

\* C26 witness: ProcessBookmarks has returned after a miss whose discovery failed
\* and left a negative entry, with the clock advanced during the run
C26_Witness ==
    /\ pMain = "done"
    /\ now # ZeroTime
    /\ \E i \in 1..Len(bookmarks) :
          /\ pHist[i].lookup \in {"absent", "stale"}
          /\ pHist[i].writes = 1
          /\ ~pHist[i].ok
          /\ entries[bookmarks[i]].present
          /\ ~HasFeed(entries[bookmarks[i]])

----------------------------------------------------------------------------
\* Properties of discovery per URL

\* the bookmarks of the batch with the given URL for which a discovery was made
DiscoveredFor(url) ==
    {i \in 1..Len(bookmarks) : bookmarks[i] = url /\ pHist[i].fetches > 0}

\* C27: within one ProcessBookmarks run a discovery is made for at most one of
\* the bookmarks that share a URL, whatever the number of workers and the
\* interleaving.
C27_OneDiscoveryPerURL ==
    \A url \in Keys : Cardinality(DiscoveredFor(url)) <= 1

\* C28: processBookmark increments NewDiscoveries only for a URL that has no cache
\* entry at all: a bookmark whose entry was stale is rediscovered without being
\* counted as a new discovery.
C28_StaleIsNotNewDiscovery ==
    \A i \in 1..Len(bookmarks) : pHist[i].lookup = "stale" => pHist[i].newIncs = 0

----------------------------------------------------------------------------
\* Properties of the work queue

\* C29: in ProcessItems no worker receives an item before all the items have
\* been sent to the work queue.
C29_QueueFilledBeforeDrained ==
    iSent < Len(items) => \A i \in 1..Len(items) : iHist[i].recv = 0

----------------------------------------------------------------------------
\* Properties of findFeedLinks

\* C30: findFeedLinks returns the eight conventional paths on the scheme and host
\* of the page, in order, exactly when neither the walk over the parsed page nor
\* the regular expressions found a link, also when the page could not be parsed;
\* when either found a link, no conventional path is returned.
C30_CommonPathsIffNothingFound ==
    foundLinks.returned =>
        IF htmlContent.walk = <<>> /\ htmlContent.regex = <<>>
        THEN /\ Len(foundLinks.feedURLs) = 8
             /\ \A k \in 1..8 :
                   foundLinks.feedURLs[k]
                       = <<baseURL.Scheme, "://", baseURL.Host, commonPaths[k]>>
        ELSE \A k \in 1..Len(foundLinks.feedURLs) : Len(foundLinks.feedURLs[k]) = 1

----------------------------------------------------------------------------
\* Properties of the feed parsers

\* the dialects in the order FetchFeed tries them, with their root elements
DialectRoot == [RSS |-> "rss", Atom |-> "feed", RDF |-> "RDF"]

\* the document is structurally a feed of the dialect
ValidAs(doc, dialect) == doc.wellFormed /\ doc.root = DialectRoot[dialect]

\* the first dialect, in the order RSS, Atom, RDF, that satisfies ok
FirstDialect(ok(_)) ==
    IF ok("RSS") THEN "RSS" ELSE IF ok("Atom") THEN "Atom" ELSE IF ok("RDF") THEN "RDF"
    ELSE ""

\* C31: FetchFeed's parser returns the first of RSS, Atom, RDF under which the
\* document is structurally valid and has a non-empty title, and fails only
\* when there is no such dialect.
C31_FirstTitledDialectWins ==
    feedResult.returned =>
        LET Titled(d) == ValidAs(feedContent, d) /\ feedContent.title # ""
            first == FirstDialect(Titled)
        IN  IF first = "" THEN feedResult.feed.err
            ELSE /\ ~feedResult.feed.err
                 /\ feedResult.feed.FeedType = first
                 /\ feedResult.feed.Title = feedContent.title

\* C32: the link of every Feed returned by parseRSSFeed, parseAtomFeed and
\* parseRDFFeed has no blank at either end and does not end with a slash,
\* whatever the text of the link in the document.
C32_ReturnedLinkIsClean ==
    feedResult.returned /\ ~feedResult.feed.err =>
        LET link == feedResult.feed.Link
        IN  Len(link) > 0 =>
                /\ link[1] # " "
                /\ link[Len(link)] # " "
                /\ link[Len(link)] # "/"

\* C34: extractFeedTitle accepts a document exactly when FetchFeed's parser
\* (RSS, Atom, RDF) accepts it with a non-empty title, so a valid feed of any of
\* the three dialects can win forward discovery.
C34_ExtractAgreesWithFetchFeed ==
    feedResult.returned /\ titleResult.returned =>
        (~titleResult.res.err <=> (~feedResult.feed.err /\ feedResult.feed.Title # ""))

----------------------------------------------------------------------------
\* Properties of an import without attempts

\* C35: with RetryAttempts <= 0 retryOperation never calls the operation and
\* returns an error: no item is ever given to DiscoverBookmarkURL or to
\* ProcessBookmark, no feed is fetched and the service is never called, and when
\* ProcessItems has returned every item is failed with an error and
\* Failed = Processed = Total.
C35_NoAttemptsFailEveryItem ==
    options.RetryAttempts <= 0 =>
        /\ \A i \in 1..Len(items) :
              /\ iHist[i].discovered = "none" /\ iHist[i].fetches = 0
              /\ iHist[i].calls = 0 /\ iHist[i].lookup = "none"
              /\ iHist[i].creates = 0 /\ iHist[i].updates = 0
        /\ ImportDone =>
              /\ stats.Failed = stats.Processed
              /\ stats.Processed = stats.Total
              /\ stats.Total = Len(items)
              /\ \A i \in 1..Len(items) :
                    items[i].Status = "StatusFailed" /\ items[i].Error # Nil

\* C35 witness: ProcessItems has returned for two items with a negative
\* RetryAttempts, both items were received by a worker and both are failed
C35_Witness ==
    /\ ImportDone
    /\ options.RetryAttempts < 0
    /\ Len(items) = 2
    /\ \A i \in 1..2 : iHist[i].recv = 1
    /\ stats.Failed = 2

----------------------------------------------------------------------------
\* Properties of the result of DiscoverFeedWithDebug

\* C36: every result DiscoverFeedWithDebug returns is either successful, with
\* no error and a non-empty FeedURL and FeedTitle, or has an error and an empty
\* FeedURL, whatever the title of the feed, a title of blanks included.
C36_ResultSuccessfulOrError ==
    dPc = "done" =>
        \/ dResult.Error = NoError /\ dResult.FeedURL # "" /\ dResult.FeedTitle # ""
        \/ dResult.Error # NoError /\ dResult.FeedURL = ""

----------------------------------------------------------------------------
\* Properties of the redirect policy

\* C37: a request fails with the redirect error exactly when the chain of
\* redirects is longer than MaxRedirects; a chain of at most MaxRedirects
\* redirects is followed to its final response.
C37_ErrorIffChainExceedsMax ==
    doResult # "none" =>
        /\ doResult = "error" <=> chain > maxRedirects
        /\ doResult = "response" => via = chain + 1

----------------------------------------------------------------------------
\* Properties of the token loop of parseRSSFeed

\* C33: the depth the token loop keeps is the nesting depth below <channel>,
\* so the link parseRSSFeed returns is the link of a direct child of <channel>
\* or empty, never a link nested in another child of the channel, whatever
\* elements the channel holds.
C33_OnlyDirectChildLink ==
    rssFeed.parsed => rssFeed.Link \notin {"i", "g", "o"}

\* the channel holds links and titles only
OnlyLinksAndTitles(doc) ==
    \A k \in 1..Len(doc.children) :
        doc.children[k] \in {"link:", "link: ", "link:c", "link:c/", "link:d", "title"}

\* the text of the first link of the channel that has text
RECURSIVE FirstLinkText(_)
FirstLinkText(children) ==
    IF children = <<>> THEN ""
    ELSE CASE Head(children) = "link: " -> " "
           [] Head(children) = "link:c" -> "c"
           [] Head(children) = "link:c/" -> "c/"
           [] Head(children) = "link:d" -> "d"
           [] OTHER -> FirstLinkText(Tail(children))

\* C38: when unmarshalling left the channel link empty, parseRSSFeed returns
\* the first non-empty <link> among the direct children of <channel>, in
\* document order; a later link of the channel does not replace it.
C38_FirstChannelLinkKept ==
    (/\ rssFeed.parsed
     /\ OnlyLinksAndTitles(rssDoc)
     /\ UnmarshalChannelLink(rssDoc.children, "") = "")
        => rssFeed.Link = CleanLink(FirstLinkText(rssDoc.children))

====
